---- MODULE Spec2Model ----
(***************************************************************************)
(* A model of the eAccounts client: the scrape engine of scraper.py        *)
(* (page fetch, silent SAML refresh, postback pagination) and the login    *)
(* orchestrator of login.py (credentials, second-factor push, polling).    *)
(*                                                                         *)
(* Every HTTP request is one action: the request, the response the server  *)
(* chooses, and the code that handles it up to the next request.  The      *)
(* servers are the environment: each response is drawn from a small set.   *)
(* Spec is one scrape operation of a DiningBalanceScraper; LoginSpec is    *)
(* one call of perform_login.                                              *)
(***************************************************************************)
EXTENDS Integers, Sequences, FiniteSets, TLC

VARIABLES
    pc,                \* scrape: the request the operation is about to issue
    op,                \* scrape: "none", "balance" or "transactions"
    cookie_dict,       \* self.cookie_dict, the in-memory target cookies
    cookies_file,      \* cookies.pkl
    sso_cookies_file,  \* sso_cookies.pkl
    jar,               \* the requests.Session cookie jar of a refresh
    saml_html,         \* the body handed to _refresh_via_saml
    idp_resp,          \* the response that ended the SAMLRequest chain
    saml_result,       \* what _complete_saml_flow gave the refresher
    saml_hops,         \* depth of the _complete_saml_flow recursion
    refresh_state,     \* "none", "running", "ok", "failed"
    reqlog,            \* the requests (and refresher calls) issued so far
    get_resps,         \* the responses to the page GETs of _fetch_page
    failure,           \* the exception raised, and what really caused it
    result,            \* what get_balance / get_transactions returned
    form_data,         \* get_transactions: the search form
    page_form,         \* get_transactions: the form of the next postback
    delta_parts,       \* get_transactions: the latest delta response
    page_num,          \* get_transactions: page the next postback asks for
    all_transactions,  \* get_transactions: rows collected so far
    stop,              \* get_transactions: why the pagination loop ended
    transactions,      \* the 'transactions' entry of the result, if it has one
    lpc,               \* login: the request perform_login is about to issue
    url,               \* login: what the current URL contains
    hops,              \* login: GETs issued by the redirect loop of phase 1
    cred_resp,         \* login: the response to the credentials POST
    duo,               \* login: the challenge variant, duo_info['type']
    duo_page,          \* login: the universal prompt page (form, sid in URL)
    proof,             \* login: what _do_duo_auth returned
    elapsed,           \* login: time.time() - start_time, in seconds
    last_issue,        \* login: elapsed time at which the last poll was sent
    min_wait,          \* login: the least wait before a poll, -1 before any
    status_log,        \* login: the first status responses, in order
    only_pending,      \* login: every status response so far was pending
    last_status,       \* login: the latest status response
    lreq,              \* login: the requests issued after the redirect loop
    lfailure,          \* login: the exception perform_login raised
    lresult,           \* login: "none", "returned" or "raised"
    session,           \* login: target cookies in the requests.Session jar
    depth,             \* login: depth of the hand-back recursion
    landing,           \* login: the page the redirect loop of phase 1 ended on
    chain_end,         \* login: the page the hand-back chain ended on
    cpc,               \* a helper called on its own: "idle", "input", "returned"
    text,              \* _parse_delta_response: the response body
    parts,             \* _parse_delta_response: the parts it returned
    trs,               \* _parse_transaction_rows: the tr elements of the markup
    parsed_rows,       \* _parse_transaction_rows: what the call came to
    date_str,          \* _to_telerik_date, _to_client_state: the date text
    telerik,           \* what _to_telerik_date returned
    client_state,      \* the blob _to_client_state returned
    browser_cookies,   \* api login: what context.cookies() gave
    cookies_pkl,       \* api login: 'cookies.pkl' as the handler leaves it
    sso_cookies_pkl,   \* api login: 'sso_cookies.pkl' as the handler leaves it
    prev_pkl,          \* api login: both files before the call
    api_result,        \* api login: the shape and status of the response
    initial_cookies,   \* load_cookies: the INITIAL_COOKIES environment variable
    begin_date,        \* get_transactions: the begin_date argument
    end_date,          \* get_transactions: the end_date argument
    search_dates,      \* get_transactions: the date fields of the search form
    scrapers,          \* concurrent operations: position and cookie_dict of each
    save_log,          \* concurrent operations: who called save_cookies, in order
    loops              \* the trigger/poll/result loop of each variant, side by side

scrapeVars == <<pc, op, cookie_dict, cookies_file, sso_cookies_file, jar,
                saml_html, idp_resp, saml_result, saml_hops, refresh_state,
                reqlog,
                get_resps, failure, result, form_data, page_form,
                delta_parts, page_num, all_transactions, stop,
                transactions>>

loginVars == <<lpc, url, hops, cred_resp, duo, duo_page, proof, elapsed,
               last_issue, min_wait, status_log, only_pending, last_status,
               lreq, lfailure, lresult, session, depth, landing, chain_end>>

\* the helpers that are checked as single calls on enumerated inputs
deltaVars == <<text, parts>>

rowVars == <<trs, parsed_rows>>

dateVars == <<date_str, telerik, client_state>>

apiVars == <<browser_cookies, cookies_pkl, sso_cookies_pkl, prev_pkl,
             api_result>>

loadVars == <<initial_cookies>>

searchVars == <<begin_date, end_date, search_dates>>

raceVars == <<scrapers, save_log>>

loopVars == <<loops>>

callVars == <<cpc, deltaVars, rowVars, dateVars, apiVars, loadVars,
              searchVars, raceVars, loopVars>>

\* what a call of one helper leaves alone
notDelta == <<scrapeVars, loginVars, rowVars, dateVars, apiVars, loadVars,
             searchVars, raceVars, loopVars>>
notRows == <<scrapeVars, loginVars, deltaVars, dateVars, apiVars, loadVars,
             searchVars, raceVars, loopVars>>
notDate == <<scrapeVars, loginVars, deltaVars, rowVars, apiVars, loadVars,
             searchVars, raceVars, loopVars>>
notSearch == <<scrapeVars, loginVars, deltaVars, rowVars, dateVars, apiVars,
               loadVars, raceVars, loopVars>>
notApi == <<scrapeVars, loginVars, deltaVars, rowVars, dateVars, loadVars,
             searchVars, raceVars, loopVars>>

vars == <<scrapeVars, loginVars, callVars>>

DeltaIdle == text = <<>> /\ parts = <<>>

RowsIdle == trs = <<>> /\ parsed_rows = [raised |-> FALSE, records |-> <<>>]

\* no blob yet
NoClientState ==
    [validationText |-> <<>>, valueAsString |-> <<>>,
     lastSetTextBoxValue |-> <<>>]

DateIdle ==
    /\ date_str = <<>>
    /\ telerik = <<>>
    /\ client_state = NoClientState

\* a pickle file: absent, holding what was dumped, or cut off by a failed
\* dump
NoPkl == [state |-> "absent", d |-> <<>>]
Pkl(d) == [state |-> "ok", d |-> d]
CutPkl == [state |-> "truncated", d |-> <<>>]

NoApiResult == [shape |-> "none", code |-> 0]

ApiIdle ==
    /\ browser_cookies = <<>>
    /\ cookies_pkl = NoPkl
    /\ sso_cookies_pkl = NoPkl
    /\ prev_pkl = <<NoPkl, NoPkl>>
    /\ api_result = NoApiResult

\* INITIAL_COOKIES is not set
Unset == [kind |-> "unset", cookies |-> <<>>, d |-> <<>>]

LoadIdle == initial_cookies = Unset

\* the date fields of a search form that was not built
NoDateFields == [display |-> <<>>, telerik |-> <<>>, cs |-> NoClientState]

SearchIdle ==
    /\ begin_date = <<>>
    /\ end_date = <<>>
    /\ search_dates = [begin |-> NoDateFields, end |-> NoDateFields]

RaceIdle == scrapers = <<>> /\ save_log = <<>>

LoopIdle == loops = <<>>

\* no helper call is under way
CallIdle ==
    /\ cpc = "idle"
    /\ DeltaIdle
    /\ RowsIdle
    /\ DateIdle
    /\ ApiIdle
    /\ LoadIdle
    /\ SearchIdle
    /\ RaceIdle
    /\ LoopIdle

----------------------------------------------------------------------------
(* Bounds of the model. *)

MaxPages == 2      \* postbacks of one get_transactions (search + pagination)
MaxRows == 1       \* transaction rows in one delta response
MaxSamlHops == 2   \* chained assertion forms one identity provider sends
MaxLog == 3        \* status answers kept in status_log; an approval is one
MaxDepth == 2      \* recursive calls of the hand-back after the second factor

----------------------------------------------------------------------------
(* Cookies: a cookie set is a function from names to values. *)

CookieNames == {"sid", "aux"}

EmptyDict == [n \in {} |-> "none"]

\* dict[name] = value for every cookie of s (dict.update)
Update(d, s) ==
    [n \in (DOMAIN d) \cup (DOMAIN s) |-> IF n \in DOMAIN s THEN s[n] ELSE d[n]]

\* the Set-Cookie headers of one response: nothing, or a fresh "sid"
SetCookie(flag, tag) == IF flag THEN [n \in {"sid"} |-> tag] ELSE EmptyDict

NoFile == [exists |-> FALSE, d |-> EmptyDict]
File(d) == [exists |-> TRUE, d |-> d]

----------------------------------------------------------------------------
(* Cookie lists: the entries of a browser context or of an exported       *)
(* session-state document, each with a name, a value and a domain.        *)

MaxCookies == 2

CookieValues == {"a", "b"}

\* cookie domains of the sites a login visits: the target application's
\* host, its parent domain, the identity provider
EACCOUNTS_HOST == "eacct-buzzcard-sp.transactcampus.com"

CookieDomains == {EACCOUNTS_HOST, ".transactcampus.com", "sso.gatech.edu"}

CookieEntries ==
    [name : CookieNames, value : CookieValues, domain : CookieDomains]

CookieLists == UNION {[1 .. n -> CookieEntries] : n \in 0 .. MaxCookies}

RECURSIVE KeptFrom(_, _, _)
\* the name-to-value dict a loop over a cookie list fills, entry by entry,
\* with the entries of the kept domains
KeptFrom(cs, d, kept) ==
    IF cs = <<>> THEN d
    ELSE KeptFrom(Tail(cs),
                  IF Head(cs).domain \in kept
                  THEN Update(d, [n \in {Head(cs).name} |-> Head(cs).value])
                  ELSE d,
                  kept)

\* a bootstrap that takes the entries of every domain
IsAnyDomain(domain) == TRUE

\* load_cookies 73: 'eacct-buzzcard-sp.transactcampus.com' in domain
IsHostDomain(domain) == domain = EACCOUNTS_HOST

\* load_cookies 42-96 with save_cookies 98-102: the cookie dict and
\* cookies.pkl after the constructor, and the way the cookies were found.
\* INITIAL_COOKIES is unset, not base64 of JSON ("garbage"), a
\* session-state document ("state"), a flat mapping ("flat") or other JSON
load_cookies(file, env) ==
    IF file.exists
    THEN [cookie_dict |-> file.d, file |-> file, how |-> "from_file"]
    ELSE IF env.kind \in {"unset", "garbage"}
    THEN [cookie_dict |-> EmptyDict, file |-> file, how |-> "no_cookies"]
    ELSE IF env.kind = "state"
    THEN [cookie_dict |->
              KeptFrom(env.cookies, EmptyDict,
                       {x \in CookieDomains : IsHostDomain(x)}),
          file |->
              File(KeptFrom(env.cookies, EmptyDict,
                            {x \in CookieDomains : IsHostDomain(x)})),
          how |-> "from_env"]
    ELSE IF env.kind = "flat"
    THEN [cookie_dict |-> env.d, file |-> File(env.d), how |-> "from_env"]
    ELSE [cookie_dict |-> EmptyDict, file |-> File(EmptyDict),
          how |-> "from_env"]

----------------------------------------------------------------------------
(* The federation cookie file, failures and responses. *)

NoSso == [state |-> "absent", t |-> EmptyDict, i |-> "none"]
BadSso == [state |-> "corrupt", t |-> EmptyDict, i |-> "none"]
Sso(j) == [state |-> "ok", t |-> j.t, i |-> j.i]

NoJar == [t |-> EmptyDict, i |-> "none"]

\* _extract_eaccounts_cookies / the loop of scraper.py 172-174: the cookies of
\* the jar whose domain contains the target domain
TargetCookiesOfJar(j) == j.t

----------------------------------------------------------------------------
(* Failures: the exception class that is raised, and its real cause. *)

NoFailure == [cls |-> "none", origin |-> "none"]
Exc(cls, origin) == [cls |-> cls, origin |-> origin]

\* an operation that lets every failure but SessionExpired escape
ErrorShapeReraise(e) ==
    IF e.cls = "SessionExpiredError" THEN "session_expired" ELSE "raised"

\* get_balance 455-462, get_transactions 619-626: the error shape
ErrorShape(e) ==
    IF e.cls = "SessionExpiredError" THEN "session_expired" ELSE "error"

----------------------------------------------------------------------------
(* Responses the servers may give. *)

Redirects == {301, 302, 303, 307, 308}

NoResp == [exc |-> FALSE, status |-> 0, loc_login |-> FALSE, marker |-> FALSE,
           reqform |-> FALSE, setc |-> FALSE]

\* a page GET: a transport exception, or a status with a Location (3xx) and a
\* body that may be the auto-submitting SAML page ("marker") carrying a
\* SAMLRequest form ("reqform")
PageResps ==
    {[NoResp EXCEPT !.exc = TRUE]}
    \cup {[NoResp EXCEPT !.status = s, !.loc_login = l, !.marker = m] :
            s \in Redirects, l \in BOOLEAN, m \in BOOLEAN}
    \cup {[NoResp EXCEPT !.status = 500, !.marker = m] : m \in BOOLEAN}
    \cup {[NoResp EXCEPT !.status = 200, !.setc = c] : c \in BOOLEAN}
    \cup {[NoResp EXCEPT !.status = 200, !.marker = TRUE, !.reqform = f] :
            f \in BOOLEAN}

\* the end of a followed redirect chain: what the final URL contains, whether
\* the final body carries a SAMLResponse form, whether the chain set a target
\* cookie
NoChain == [seen |-> FALSE, target |-> FALSE, login |-> FALSE,
            saml_form |-> FALSE]
ChainResps ==
    [exc : {FALSE}, target : BOOLEAN, login : BOOLEAN, saml_form : BOOLEAN,
     setc : BOOLEAN]
    \cup {[exc |-> TRUE, target |-> FALSE, login |-> FALSE,
           saml_form |-> FALSE, setc |-> FALSE]}

----------------------------------------------------------------------------
(* The form of a postback and the delta response. *)

HiddenNames == {"__VIEWSTATE", "__EVENTVALIDATION", "__VIEWSTATEGENERATOR",
                "__ncforminfo", "RadScriptManager1_TSM"}
TokenNames == {"__VIEWSTATE", "__EVENTVALIDATION", "__VIEWSTATEGENERATOR"}

\* A token value is the number of the round trip that issued it: 0 for the
\* initial page, k for the k-th postback.  Absent: the field is not there.
Absent == -1

NoForm == [n \in HiddenNames \cup {"__EVENTTARGET"} |-> Absent]

\* the parts _parse_delta_response returns: hiddenField parts for some ids,
\* maybe an updatePanel with the ResultRadGrid, maybe in it a link for the
\* next page, and rows
NoDelta == [hidden |-> EmptyDict, grid |-> FALSE, link |-> FALSE, rows |-> 0]

\* the hidden fields one delta carries: none, one token, the tokens, the
\* other fields, all but one token, or all
HiddenChoices ==
    {{}, {"__VIEWSTATE"}, TokenNames, HiddenNames \ TokenNames,
     HiddenNames \ {"__VIEWSTATE"}, HiddenNames}

\* the parts of the delta of postback k; the next-page link is read inside
\* the grid, the rows in any update panel
DeltaParts(k) ==
    {[hidden |-> [n \in H |-> k], grid |-> g, link |-> l, rows |-> r] :
        H \in HiddenChoices, g \in BOOLEAN, l \in BOOLEAN, r \in 0..MaxRows}

NoPost == [exc |-> FALSE, status |-> 0, page_redirect |-> FALSE,
           loc_login |-> FALSE, setc |-> FALSE, parts |-> NoDelta]

\* the response to postback k: a transport exception, a redirect, a
\* pageRedirect part, or a delta (the status of an error page is not looked at)
DeltaResps(k) ==
    {[NoPost EXCEPT !.exc = TRUE]}
    \cup {[NoPost EXCEPT !.status = 302, !.loc_login = l] : l \in BOOLEAN}
    \cup {[NoPost EXCEPT !.status = 200, !.page_redirect = TRUE]}
    \cup {[NoPost EXCEPT !.status = 500]}
    \cup {[NoPost EXCEPT !.status = 200, !.setc = c, !.parts = q] :
            c \in BOOLEAN, q \in {x \in DeltaParts(k) : x.grid \/ ~x.link}}

----------------------------------------------------------------------------
(* The scrape operation. *)

cookieVars == <<cookie_dict, cookies_file, sso_cookies_file>>
refreshVars == <<jar, saml_html, idp_resp, saml_result, saml_hops,
                 refresh_state>>
formVars == <<form_data, page_form, delta_parts, page_num, all_transactions,
              stop>>

Count(kind) == Cardinality({i \in DOMAIN reqlog : reqlog[i] = kind})

\* an error result that carries the rows collected before the failure
ErrorTransactionsPartial(rows) == rows

\* get_balance 457, 462, get_transactions 621, 626: the 'transactions' entry
\* of an error result; there is none
ErrorTransactions(rows) == Absent

\* an operation that notes the failure and repeats the request that failed
RaiseAndRetry(e) ==
    /\ pc' = pc
    /\ failure' = e
    /\ result' = ErrorShape(e)
    /\ transactions' = ErrorTransactions(all_transactions)
    /\ jar' = NoJar
    /\ page_form' = NoForm
    /\ delta_parts' = NoDelta

\* the except clauses of get_balance 455-462 and get_transactions 619-626:
\* the operation ends with an error shape and its locals are gone
Raise(e) ==
    /\ pc' = "done"
    /\ failure' = e
    /\ result' = ErrorShape(e)
    /\ transactions' = ErrorTransactions(all_transactions)
    /\ jar' = NoJar
    /\ page_form' = NoForm
    /\ delta_parts' = NoDelta

\* DiningBalanceScraper() and the call of get_balance / get_transactions:
\* load_cookies reads cookies.pkl when it exists and INITIAL_COOKIES when
\* it does not
StartOp(o) ==
    /\ pc = "idle"
    /\ op' = o
    /\ pc' = "get1"
    /\ cookie_dict' = load_cookies(cookies_file, initial_cookies).cookie_dict
    /\ cookies_file' = load_cookies(cookies_file, initial_cookies).file
    /\ UNCHANGED <<sso_cookies_file, refreshVars, reqlog,
                   get_resps, failure, result, transactions, formVars>>
    /\ UNCHANGED <<loginVars, callVars>>

\* _fetch_page 235-254 on the response to the first GET
FirstGetOutcome(r) ==
    IF r.exc THEN "raise_error"
    ELSE IF r.status = 302
         THEN (IF r.loc_login THEN "raise_expired" ELSE "raise_error")
    ELSE IF r.status # 200 THEN "raise_error"
    ELSE IF r.marker THEN "refresh"
    ELSE "return"

\* a retry that, on a second SAML page, starts the refresher again
RetryOutcomeRefreshAgain(r) ==
    IF r.exc THEN "raise_error"
    ELSE IF r.marker THEN "refresh"
    ELSE IF r.status # 200 THEN "raise_error"
    ELSE "return"

\* _fetch_page 259-271 on the response to the retried GET
RetryOutcome(r) ==
    IF r.exc THEN "raise_error"
    ELSE IF r.marker THEN "raise_expired"
    ELSE IF r.status # 200 THEN "raise_error"
    ELSE "return"

\* get_transactions 471-543: the search form built from the initial page
SearchForm(ncf) ==
    [n \in DOMAIN NoForm |->
        IF n = "__ncforminfo" /\ ~ncf THEN Absent ELSE 0]

\* _fetch_page 273-275 and what the caller does with the page: get_balance
\* parses it and returns, get_transactions builds the search form
ReturnPage(r, tag) ==
    /\ cookie_dict' = Update(cookie_dict, SetCookie(r.setc, tag))
    /\ cookies_file' = File(cookie_dict')
    /\ failure' = NoFailure
    /\ jar' = NoJar
    /\ delta_parts' = NoDelta
    /\ IF op = "balance"
       THEN /\ pc' = "done"
            /\ result' = "success"
            /\ transactions' = Absent
            /\ page_form' = NoForm
            /\ UNCHANGED <<form_data, page_num>>
       ELSE /\ pc' = "post"
            /\ result' = "none"
            /\ transactions' = Absent
            /\ \E ncf \in BOOLEAN :
                  /\ form_data' = SearchForm(ncf)
                  /\ page_form' = SearchForm(ncf)
            /\ page_num' = 1

\* what _fetch_page does with the response r to one of its GETs
FetchStep(outcome, r, tag) ==
    IF outcome = "raise_error"
    THEN /\ Raise(Exc("Exception", "transport"))
         /\ UNCHANGED <<cookieVars, saml_html, form_data, page_num>>
    ELSE IF outcome = "raise_expired"
    THEN /\ Raise(Exc("SessionExpiredError", "expiry"))
         /\ UNCHANGED <<cookieVars, saml_html, form_data, page_num>>
    ELSE IF outcome = "refresh"
    THEN /\ pc' = "refresh"
         /\ saml_html' = [reqform |-> r.reqform]
         /\ UNCHANGED <<cookieVars, jar, failure, result, transactions, form_data,
                        page_form, delta_parts, page_num>>
    ELSE /\ ReturnPage(r, tag)
         /\ UNCHANGED <<sso_cookies_file, saml_html>>

\* _fetch_page 226-256: the first GET
FetchGet ==
    /\ pc = "get1"
    /\ \E r \in PageResps :
          /\ reqlog' = Append(reqlog, "GET page")
          /\ get_resps' = Append(get_resps, r)
          /\ FetchStep(FirstGetOutcome(r), r, "get")
    /\ UNCHANGED <<op, idp_resp, saml_result, saml_hops, refresh_state,
                   all_transactions, stop>>
    /\ UNCHANGED <<loginVars, callVars>>

\* _fetch_page 259-275: the GET retried after a refresh
FetchRetry ==
    /\ pc = "get2"
    /\ \E r \in PageResps :
          /\ reqlog' = Append(reqlog, "GET page")
          /\ get_resps' = Append(get_resps, r)
          /\ FetchStep(RetryOutcome(r), r, "retry")
    /\ UNCHANGED <<op, idp_resp, saml_result, saml_hops, refresh_state,
                   all_transactions, stop>>
    /\ UNCHANGED <<loginVars, callVars>>

\* a refresher whose failures reach the caller as plain exceptions
RefreshFailOwnKind(origin) ==
    /\ Raise(Exc("Exception", origin))
    /\ refresh_state' = "failed"
    /\ saml_hops' = 0
    /\ UNCHANGED <<cookieVars, saml_html>>

\* _refresh_via_saml raising SessionExpiredError, which no caller up to
\* get_balance / get_transactions catches
RefreshFail(origin) ==
    /\ Raise(Exc("SessionExpiredError", origin))
    /\ refresh_state' = "failed"
    /\ saml_hops' = 0
    /\ UNCHANGED <<cookieVars, saml_html>>

\* a refresh that merges the fresh cookies into the old ones
RefreshedCookieDictMerged(old, cookies) == Update(old, cookies)

\* _refresh_via_saml 162 / 176: the target cookies after a refresh
RefreshedCookieDict(old, cookies) == cookies

\* _refresh_via_saml 162-167 and 176-180: the refresh succeeded
RefreshSucceed(cookies, j) ==
    /\ cookie_dict' = RefreshedCookieDict(cookie_dict, cookies)
    /\ cookies_file' = File(cookie_dict')
    /\ sso_cookies_file' = Sso(j)
    /\ refresh_state' = "ok"
    /\ pc' = "get2"
    /\ jar' = NoJar
    /\ saml_hops' = 0
    /\ UNCHANGED <<saml_html, failure, result, transactions, page_form, delta_parts>>

\* writing the two cookie files at the end of a refresh: both written, the
\* target cookie file refused, or the federation cookie file refused
StoreOutcomes == {"ok", "cookies_refused", "sso_refused"}

\* _refresh_via_saml 162-164 / 176-178 and 190-196: a write that fails after
\* the fresh cookies were taken is caught and raised as SessionExpiredError
RefreshStoreFail(cookies, w) ==
    /\ Raise(Exc("SessionExpiredError", "write"))
    /\ refresh_state' = "failed"
    /\ saml_hops' = 0
    /\ cookie_dict' = RefreshedCookieDict(cookie_dict, cookies)
    /\ cookies_file' = IF w = "sso_refused" THEN File(cookie_dict')
                       ELSE cookies_file
    /\ UNCHANGED <<sso_cookies_file, saml_html>>

\* _refresh_via_saml 161-167 / 175-180: the fresh cookies are taken and stored
StoreRefreshed(cookies, j) ==
    \E w \in StoreOutcomes :
       IF w = "ok" THEN RefreshSucceed(cookies, j)
       ELSE RefreshStoreFail(cookies, w)

\* _refresh_via_saml 169-188 on the URL u the SAMLRequest chain ended at
DirectOutcome(u, cookies) ==
    IF u.target /\ cookies # EmptyDict THEN "direct"
    ELSE IF u.login THEN "login_page"
    ELSE "unexpected_url"

\* _refresh_via_saml 169-188: no assertion was handed back successfully
RefreshTail(j, u) ==
    IF DirectOutcome(u, TargetCookiesOfJar(j)) = "direct"
    THEN StoreRefreshed(TargetCookiesOfJar(j), j)
    ELSE IF DirectOutcome(u, TargetCookiesOfJar(j)) = "login_page"
    THEN RefreshFail("expiry")
    ELSE RefreshFail("not_established")

\* _refresh_via_saml 161: are the cookies of _complete_saml_flow taken
CookiesTaken(cookies) == cookies # EmptyDict

\* _refresh_via_saml 160-167: _complete_saml_flow returned cookies
AfterSaml(j) ==
    /\ saml_result' = IF TargetCookiesOfJar(j) # EmptyDict
                      THEN "cookies" ELSE "empty"
    /\ IF CookiesTaken(TargetCookiesOfJar(j))
       THEN StoreRefreshed(TargetCookiesOfJar(j), j)
       ELSE RefreshTail(j, idp_resp)

\* _refresh_via_saml 110-142: what stops the refresh before any request
RefreshPrecheck(sso, html) ==
    IF sso.state = "absent" THEN "no_federation_cookies"
    ELSE IF sso.state = "corrupt" THEN "storage"
    ELSE IF ~html.reqform THEN "parse"
    ELSE "ok"

\* _refresh_via_saml 110-167: load the federation cookies, replay the
\* SAMLRequest form and look at where the chain ended
RefreshPostRequest ==
    /\ pc = "refresh"
    /\ IF RefreshPrecheck(sso_cookies_file, saml_html) # "ok"
       THEN /\ reqlog' = Append(reqlog, "CALL refresh")
            /\ RefreshFail(RefreshPrecheck(sso_cookies_file, saml_html))
            /\ UNCHANGED <<idp_resp, saml_result>>
       ELSE /\ reqlog' = reqlog \o <<"CALL refresh", "POST SAMLRequest">>
            /\ \E c \in ChainResps :
                 LET j == [t |-> Update(sso_cookies_file.t,
                                        SetCookie(c.setc, "chain")),
                           i |-> sso_cookies_file.i]
                     u == [seen |-> TRUE, target |-> c.target,
                           login |-> c.login, saml_form |-> c.saml_form]
                 IN  /\ UNCHANGED saml_result
                     /\ IF c.exc
                        THEN RefreshFail("transport") /\ UNCHANGED idp_resp
                        ELSE IF c.saml_form
                        THEN /\ pc' = "saml_post"
                             /\ jar' = j
                             /\ idp_resp' = u
                             /\ saml_hops' = 0
                             /\ refresh_state' = "running"
                             /\ UNCHANGED <<cookieVars, saml_html, failure,
                                            result, transactions, page_form, delta_parts>>
                        ELSE RefreshTail(j, u) /\ idp_resp' = u
    /\ UNCHANGED <<op, get_resps, form_data, page_num, all_transactions, stop>>
    /\ UNCHANGED <<loginVars, callVars>>

\* the service provider's answers to a posted assertion (its final URL is
\* only tested for the target domain)
SpResps == {c \in ChainResps : ~c.login}

\* the answers to a GET of the account page (its final URL is only tested
\* for a login marker)
DirectResps == {c \in ChainResps : ~c.target /\ ~c.saml_form}

\* _complete_saml_flow 905-927, called by _refresh_via_saml 160: post the
\* assertion; a nested assertion form is posted in turn
SamlPost ==
    /\ pc = "saml_post"
    /\ reqlog' = Append(reqlog, "POST SAMLResponse")
    /\ \E c \in SpResps :
         LET j == [jar EXCEPT !.t = Update(jar.t, SetCookie(c.setc, "sp"))]
         IN  IF c.exc
             THEN RefreshFail("transport") /\ saml_result' = "raised"
             ELSE IF c.saml_form
             THEN /\ saml_hops < MaxSamlHops
                  /\ saml_hops' = saml_hops + 1
                  /\ jar' = j
                  /\ UNCHANGED <<pc, cookieVars, saml_html, saml_result,
                                 refresh_state, failure, result, transactions, page_form,
                                 delta_parts>>
             ELSE IF c.target THEN AfterSaml(j)
             ELSE /\ pc' = "saml_get"
                  /\ jar' = j
                  /\ UNCHANGED <<cookieVars, saml_html, saml_result,
                                 saml_hops, refresh_state, failure, result, transactions,
                                 page_form, delta_parts>>
    /\ UNCHANGED <<op, idp_resp, get_resps, form_data, page_num,
                   all_transactions, stop>>
    /\ UNCHANGED <<loginVars, callVars>>

\* _complete_saml_flow 929-935: the assertion chain ended elsewhere, try the
\* account page directly
SamlDirectGet ==
    /\ pc = "saml_get"
    /\ reqlog' = Append(reqlog, "GET eaccounts")
    /\ \E c \in DirectResps :
         LET j == [jar EXCEPT !.t = Update(jar.t, SetCookie(c.setc, "direct"))]
         IN  IF c.exc
             THEN RefreshFail("transport") /\ saml_result' = "raised"
             ELSE IF c.login
             THEN RefreshFail("not_established") /\ saml_result' = "raised"
             ELSE AfterSaml(j)
    /\ UNCHANGED <<op, idp_resp, get_resps, form_data, page_num,
                   all_transactions, stop>>
    /\ UNCHANGED <<loginVars, callVars>>

\* _ajax_post 302-310 on the response to a postback
PostOutcome(d) ==
    IF d.exc THEN "raise_error"
    ELSE IF d.status = 302 THEN "raise_expired"
    ELSE IF d.page_redirect THEN "raise_expired"
    ELSE "parse"

\* what really happened when _ajax_post raises
PostOrigin(d) ==
    IF d.exc THEN "transport"
    ELSE IF d.status = 302 /\ ~d.loc_login THEN "transport"
    ELSE "expiry"

\* get_transactions 582-592: the form of the postback for the page behind
\* next_target, from the search form and the hidden fields of the last delta
NextPageForm(fd, updated, next_target) ==
    [n \in DOMAIN fd |->
        IF n = "__EVENTTARGET" THEN next_target
        ELSE IF n \in TokenNames \cup {"__ncforminfo"} /\ n \in DOMAIN updated
        THEN updated[n]
        ELSE fd[n]]

\* get_transactions 601-603: a page after the first that yields no rows
\* ends the pagination
ZeroRowsStop(p, q) == p >= 2 /\ q.rows = 0

\* get_transactions 559-579: why the loop stops before asking for a page
LoopStop(q) ==
    IF ~q.grid THEN "no_grid" ELSE IF ~q.link THEN "no_link" ELSE "none"

\* get_transactions 609-617: the success result
ReturnTransactions(why) ==
    /\ pc' = "done"
    /\ result' = "success"
    /\ transactions' = all_transactions'
    /\ stop' = why
    /\ page_form' = NoForm
    /\ delta_parts' = NoDelta
    /\ UNCHANGED <<failure, page_num>>

\* get_transactions 547-607: one postback (the search, then one per page),
\* the rows of its delta and the decision to ask for a further page
AjaxPost ==
    /\ pc = "post"
    /\ reqlog' = Append(reqlog, "POST postback")
    /\ \E d \in DeltaResps(page_num) :
          /\ (page_num >= MaxPages => ~d.parts.link)
          /\ IF PostOutcome(d) = "raise_error"
             THEN /\ Raise(Exc("Exception", PostOrigin(d)))
                  /\ UNCHANGED <<cookie_dict, cookies_file, page_num,
                                 all_transactions, stop>>
             ELSE IF PostOutcome(d) = "raise_expired"
             THEN /\ Raise(Exc("SessionExpiredError", PostOrigin(d)))
                  /\ UNCHANGED <<cookie_dict, cookies_file, page_num,
                                 all_transactions, stop>>
             ELSE /\ cookie_dict' = Update(cookie_dict, SetCookie(d.setc, "ajax"))
                  /\ cookies_file' = File(cookie_dict')
                  /\ jar' = jar
                  /\ IF ZeroRowsStop(page_num, d.parts)
                     THEN /\ UNCHANGED all_transactions
                          /\ ReturnTransactions("zero_rows")
                     ELSE /\ all_transactions' = all_transactions + d.parts.rows
                          /\ IF LoopStop(d.parts) # "none"
                             THEN ReturnTransactions(LoopStop(d.parts))
                             ELSE /\ page_num' = page_num + 1
                                  /\ page_form' = NextPageForm(form_data,
                                                       d.parts.hidden, page_num + 1)
                                  /\ delta_parts' = d.parts
                                  /\ UNCHANGED <<pc, failure, result, transactions, stop>>
    /\ UNCHANGED <<op, sso_cookies_file, saml_html, idp_resp, saml_result,
                   saml_hops, refresh_state, get_resps, form_data>>
    /\ UNCHANGED <<loginVars, callVars>>

----------------------------------------------------------------------------
(* One scrape operation. *)

InitCookieFiles ==
    {NoFile, File([n \in CookieNames |-> "old"])}

InitSsoFiles ==
    {NoSso, BadSso,
     [state |-> "ok", t |-> EmptyDict, i |-> "idp"],
     [state |-> "ok", t |-> [n \in {"sid"} |-> "sso"], i |-> "idp"]}

ScrapeInit ==
    /\ pc = "idle"
    /\ op = "none"
    /\ cookie_dict = EmptyDict
    /\ cookies_file \in InitCookieFiles
    /\ sso_cookies_file \in InitSsoFiles
    /\ jar = NoJar
    /\ saml_html = [reqform |-> FALSE]
    /\ idp_resp = NoChain
    /\ saml_result = "none"
    /\ saml_hops = 0
    /\ refresh_state = "none"
    /\ reqlog = <<>>
    /\ get_resps = <<>>
    /\ failure = NoFailure
    /\ result = "none"
    /\ form_data = NoForm
    /\ page_form = NoForm
    /\ delta_parts = NoDelta
    /\ page_num = 0
    /\ all_transactions = 0
    /\ stop = "none"
    /\ transactions = Absent

----------------------------------------------------------------------------
(* perform_login: phase 1, navigation and credentials. *)

MaxRedirects == 15
DUO_POLL_TIMEOUT == 90
DUO_POLL_INTERVAL == 3
RequestTimeout == 30

loginPoll == <<elapsed, last_issue, min_wait, status_log, only_pending,
               last_status>>

NoLFailure == [cls |-> "none", msg |-> "none"]

\* a perform_login that notes the failure and goes on from where it was
LRaiseAndGoOn(cls, msg) ==
    /\ lpc' = lpc
    /\ lresult' = "raised"
    /\ lfailure' = [cls |-> cls, msg |-> msg]

\* perform_login raises: nothing in perform_login catches
LRaise(cls, msg) ==
    /\ lpc' = "done"
    /\ lresult' = "raised"
    /\ lfailure' = [cls |-> cls, msg |-> msg]

\* perform_login returns _extract_eaccounts_cookies(session)
LReturn ==
    /\ lpc' = "done"
    /\ lresult' = "returned"
    /\ lfailure' = NoLFailure

LCount(kind) == Cardinality({i \in DOMAIN lreq : lreq[i] = kind})

NoNav == [exc |-> FALSE, redirect |-> FALSE, cas |-> FALSE, eacc |-> FALSE,
          saml_req |-> FALSE, accounts |-> FALSE, form |-> FALSE,
          setc |-> FALSE]

\* the answer to a GET of phase 1: a transport exception, a redirect (what the
\* Location contains), or a page (SAMLRequest form, account data, a form)
NavResps ==
    {[NoNav EXCEPT !.exc = TRUE]}
    \cup {[NoNav EXCEPT !.redirect = TRUE, !.cas = c, !.eacc = e] :
            c \in BOOLEAN, e \in BOOLEAN}
    \cup {[NoNav EXCEPT !.saml_req = q, !.accounts = a, !.form = f,
                        !.setc = k] :
            q \in BOOLEAN, a \in BOOLEAN, f \in BOOLEAN, k \in BOOLEAN}

\* a perform_login that looks for the login page before the application
PostNavOutcomeLoginFirst(u, page) ==
    IF page.saml_req THEN "saml_request"
    ELSE IF u.cas THEN (IF page.form THEN "creds" ELSE "no_form")
    ELSE IF u.eacc
         THEN (IF page.accounts THEN "already" ELSE "unexpected_page")
    ELSE "no_cas"

\* perform_login 88-133 on the page the navigation ended on
PostNavOutcome(u, page) ==
    IF page.saml_req THEN "saml_request"
    ELSE IF u.eacc
         THEN (IF page.accounts THEN "already" ELSE "unexpected_page")
    ELSE IF ~u.cas THEN "no_cas"
    ELSE IF ~page.form THEN "no_form"
    ELSE "creds"

\* the navigation has not ended yet
NotLanded == [landed |-> FALSE, eacc |-> FALSE, saml_req |-> FALSE,
              accounts |-> FALSE]

\* the navigation ended at u on the page r: whether u is at the target
\* application, and what perform_login 94 and 112-115 find on the page
Landed(u, r) == [landed |-> TRUE, eacc |-> u.eacc, saml_req |-> r.saml_req,
                 accounts |-> r.accounts]

\* a loop that goes round once more
MoreHopsOneMore(i) == i <= MaxRedirects

\* perform_login 66: for i in range(max_redirects), i GETs were issued
MoreHops(i) == i < MaxRedirects

\* perform_login 66-133: one GET of the redirect loop (hops counts them);
\* after the last hop, or on a page, what the page is taken for
NavGet ==
    /\ lpc = "nav"
    /\ \E r \in NavResps :
         IF r.exc
         THEN /\ LRaise("Exception", "transport")
              /\ hops' = hops + 1
              /\ UNCHANGED <<url, session, landing>>
         ELSE IF r.redirect /\ MoreHops(hops + 1)
         THEN /\ url' = [cas |-> r.cas, eacc |-> r.eacc]
              /\ hops' = hops + 1
              /\ UNCHANGED <<lpc, lresult, lfailure, session, landing>>
         ELSE LET u == IF r.redirect
                       THEN [cas |-> r.cas, eacc |-> r.eacc] ELSE url
                  o == PostNavOutcome(u, r)
              IN  /\ url' = u
                  /\ landing' = Landed(u, r)
                  /\ IF o = "saml_request"
                     THEN /\ lpc' = "nav_saml"
                          /\ hops' = 0
                          /\ UNCHANGED <<lresult, lfailure, session>>
                     ELSE IF o = "creds"
                     THEN /\ lpc' = "creds"
                          /\ hops' = 0
                          /\ UNCHANGED <<lresult, lfailure, session>>
                     ELSE IF o = "already"
                     THEN /\ LReturn
                          /\ hops' = hops + 1
                          /\ session' = Update(session,
                                               SetCookie(r.setc, "target"))
                     ELSE /\ LRaise("LoginError", o)
                          /\ hops' = hops + 1
                          /\ UNCHANGED session
    /\ UNCHANGED <<lreq, cred_resp, duo, duo_page, proof, loginPoll, depth>>
    /\ UNCHANGED chain_end
    /\ UNCHANGED <<scrapeVars, callVars>>

\* perform_login 107-133 on the page the SAMLRequest POST ended on
AfterSamlRequestOutcome(r) ==
    IF ~r.cas THEN "no_cas" ELSE IF ~r.form THEN "no_form" ELSE "creds"

\* perform_login 95-133: replay the SAMLRequest form of the service provider
NavSamlPost ==
    /\ lpc = "nav_saml"
    /\ lreq' = Append(lreq, "POST SAMLRequest")
    /\ \E r \in {x \in NavResps : ~x.redirect /\ ~x.saml_req /\ ~x.accounts
                                  /\ ~x.setc /\ ~x.eacc} \cup
                {[NoNav EXCEPT !.cas = TRUE, !.form = f] : f \in BOOLEAN} :
         IF r.exc
         THEN LRaise("Exception", "transport") /\ UNCHANGED url
         ELSE /\ url' = [cas |-> r.cas, eacc |-> url.eacc]
              /\ IF AfterSamlRequestOutcome(r) = "creds"
                 THEN lpc' = "creds" /\ UNCHANGED <<lresult, lfailure>>
                 ELSE LRaise("LoginError", AfterSamlRequestOutcome(r))
    /\ UNCHANGED <<hops, cred_resp, duo, duo_page, proof, loginPoll, session,
                   depth>>
    /\ UNCHANGED <<landing, chain_end>>
    /\ UNCHANGED <<scrapeVars, callVars>>

NoCred == [exc |-> FALSE, invalid |-> FALSE, disabled |-> FALSE,
           iframe |-> "none", duo_url |-> FALSE, meta |-> FALSE,
           saml_form |-> FALSE]

NoDuoPage == [form |-> FALSE, sid |-> FALSE]

\* the answer to the credentials POST: the error texts, the iframe
\* parameters (none, well formed, or a sig_request without TX/APP), a final
\* URL at the second-factor provider, a meta refresh to it, an assertion form
CredResps ==
    {[NoCred EXCEPT !.exc = TRUE]}
    \cup {r \in [exc : {FALSE}, invalid : BOOLEAN, disabled : BOOLEAN,
                  iframe : {"none", "ok"}, duo_url : BOOLEAN, meta : {FALSE},
                  saml_form : BOOLEAN] :
            (r.iframe = "ok" /\ (r.duo_url \/ r.saml_form))
                => (r.invalid \/ r.disabled)}
    \cup {[NoCred EXCEPT !.iframe = "badsig"],
          [NoCred EXCEPT !.meta = TRUE]}

\* a perform_login that looks for the challenge before the error texts
CredOutcomeDuoFirst(r) ==
    IF r.exc THEN "exception"
    ELSE IF r.iframe = "ok" THEN "iframe"
    ELSE IF r.iframe = "badsig" THEN "bad_sig_request"
    ELSE IF r.duo_url THEN "universal"
    ELSE IF r.meta THEN "meta_refresh"
    ELSE IF r.invalid THEN "invalid_credentials"
    ELSE IF r.disabled THEN "invalid_or_disabled"
    ELSE IF r.saml_form THEN "saml"
    ELSE "challenge_not_found"

\* perform_login 164-187, _extract_duo_info, _check_duo_universal_prompt:
\* what the response to the credentials is taken for
CredOutcome(r) ==
    IF r.exc THEN "exception"
    ELSE IF r.invalid THEN "invalid_credentials"
    ELSE IF r.disabled THEN "invalid_or_disabled"
    ELSE IF r.iframe = "ok" THEN "iframe"
    ELSE IF r.iframe = "badsig" THEN "bad_sig_request"
    ELSE IF r.duo_url THEN "universal"
    ELSE IF r.meta THEN "meta_refresh"
    ELSE IF r.saml_form THEN "saml"
    ELSE "challenge_not_found"

\* a perform_login that takes an assertion page for a universal prompt
CredNextSamlAsPrompt(o) ==
    IF o = "iframe" THEN "duo_init"
    ELSE IF o \in {"universal", "saml"} THEN "uni_start"
    ELSE IF o = "meta_refresh" THEN "duo_meta"
    ELSE "done"

\* where perform_login goes on a response to the credentials
CredNext(o) ==
    IF o = "iframe" THEN "duo_init"
    ELSE IF o = "universal" THEN "uni_start"
    ELSE IF o = "meta_refresh" THEN "duo_meta"
    ELSE IF o = "saml" THEN "lsaml_post"
    ELSE "done"

\* perform_login 155-189: submit the credentials and find the challenge
CredPost ==
    /\ lpc = "creds"
    /\ lreq' = Append(lreq, "POST credentials")
    /\ \E r \in CredResps, dp \in [form : BOOLEAN, sid : BOOLEAN] :
         LET o == CredOutcome(r)
         IN  /\ cred_resp' = r
             /\ url' = [cas |-> FALSE, eacc |-> FALSE]
             /\ duo_page' = IF o = "universal" THEN dp ELSE NoDuoPage
             /\ duo' = IF o \in {"iframe", "universal"} THEN o
                       ELSE IF o = "meta_refresh" THEN "universal"
                       ELSE "none"
             /\ IF o = "exception" THEN LRaise("Exception", "transport")
                ELSE IF CredNext(o) = "done" THEN LRaise("LoginError", o)
                ELSE lpc' = CredNext(o) /\ UNCHANGED <<lresult, lfailure>>
    /\ UNCHANGED <<hops, proof, loginPoll, session, depth>>
    /\ UNCHANGED <<landing, chain_end>>
    /\ UNCHANGED <<scrapeVars, callVars>>

\* _check_duo_universal_prompt 299-306: follow the meta refresh to the prompt
DuoMetaGet ==
    /\ lpc = "duo_meta"
    /\ lreq' = Append(lreq, "GET duo prompt")
    /\ \E x \in BOOLEAN, dp \in [form : BOOLEAN, sid : BOOLEAN] :
         IF x
         THEN LRaise("Exception", "transport") /\ UNCHANGED duo_page
         ELSE /\ duo_page' = dp
              /\ lpc' = "uni_start"
              /\ UNCHANGED <<lresult, lfailure>>
    /\ UNCHANGED <<url, hops, cred_resp, duo, proof, loginPoll, session,
                   depth>>
    /\ UNCHANGED <<landing, chain_end>>
    /\ UNCHANGED <<scrapeVars, callVars>>

----------------------------------------------------------------------------
(* perform_login: phase 2, the second factor. *)

\* what a status request takes, in whole seconds, up to its own timeout
Latencies == {1, RequestTimeout}

Min(a, b) == IF a < b THEN a ELSE b

\* a frame session that sends the push whatever the init response holds
AfterDuoInitAlwaysPush(r) == "duo_trigger"

\* _do_duo_iframe 357-368: with a sid the push comes next, with the token
\* of a remembered device _do_duo_iframe returns it
AfterDuoInit(r) == IF r = "sid" THEN "duo_trigger" ELSE "post_duo"

\* _do_duo_iframe 328-377: open the frame session
DuoInit ==
    /\ lpc = "duo_init"
    /\ lreq' = Append(lreq, "POST duo auth")
    /\ \E r \in {"exc", "sid", "js_cookie", "neither"} :
         /\ IF r = "exc" THEN LRaise("Exception", "transport")
            ELSE IF r = "neither" THEN LRaise("LoginError", "no_sid")
            ELSE /\ lpc' = AfterDuoInit(r)
                 /\ UNCHANGED <<lresult, lfailure>>
         /\ proof' = IF r = "js_cookie" THEN "bypass" ELSE proof
    /\ UNCHANGED <<url, hops, cred_resp, duo, duo_page, loginPoll, session,
                   depth>>
    /\ UNCHANGED <<landing, chain_end>>
    /\ UNCHANGED <<scrapeVars, callVars>>

\* _do_duo_universal 580-585: no preauth form on the prompt page
UniSkipPreauth ==
    /\ lpc = "uni_start"
    /\ ~duo_page.form
    /\ IF duo_page.sid
       THEN lpc' = "uni_data" /\ UNCHANGED <<lresult, lfailure>>
       ELSE LRaise("LoginError", "no_sid")
    /\ duo_page' = NoDuoPage
    /\ UNCHANGED <<url, hops, cred_resp, duo, proof, loginPoll, lreq, session,
                   depth>>
    /\ UNCHANGED <<landing, chain_end>>
    /\ UNCHANGED <<scrapeVars, callVars>>

\* _do_duo_universal 492-585: submit the preauth form of the prompt page
UniPreauth ==
    /\ lpc = "uni_start"
    /\ duo_page.form
    /\ lreq' = Append(lreq, "POST preauth")
    /\ \E x \in BOOLEAN, new_sid \in BOOLEAN :
         IF x THEN LRaise("Exception", "transport")
         ELSE IF new_sid \/ duo_page.sid
         THEN lpc' = "uni_data" /\ UNCHANGED <<lresult, lfailure>>
         ELSE LRaise("LoginError", "no_sid")
    /\ duo_page' = NoDuoPage
    /\ UNCHANGED <<url, hops, cred_resp, duo, proof, loginPoll, session,
                   depth>>
    /\ UNCHANGED <<landing, chain_end>>
    /\ UNCHANGED <<scrapeVars, callVars>>

\* _poll_duo_push 623-633: the prompt data request, its answer is not read
UniPromptData ==
    /\ lpc = "uni_data"
    /\ lreq' = Append(lreq, "GET prompt data")
    /\ \E x \in BOOLEAN :
         IF x THEN LRaise("Exception", "transport")
         ELSE lpc' = "duo_trigger" /\ UNCHANGED <<lresult, lfailure>>
    /\ UNCHANGED <<url, hops, cred_resp, duo, duo_page, proof, loginPoll,
                   session, depth>>
    /\ UNCHANGED <<landing, chain_end>>
    /\ UNCHANGED <<scrapeVars, callVars>>

\* how each variant reads the answer to the push trigger
TriggerOutcome(variant, r) ==
    IF r = "exc" THEN [cls |-> "Exception", msg |-> "transport"]
    ELSE IF r = "nonjson"
    THEN (IF variant = "iframe" THEN [cls |-> "Exception", msg |-> "parse"]
          ELSE [cls |-> "LoginError", msg |-> "trigger_nonjson"])
    ELSE IF r = "not_ok" THEN [cls |-> "LoginError", msg |-> "push_failed"]
    ELSE IF r = "no_txid" THEN [cls |-> "Exception", msg |-> "parse"]
    ELSE NoLFailure

\* _do_duo_iframe 379-415, _poll_duo_push 635-667: trigger the push
Trigger(variant) ==
    /\ lpc = "duo_trigger"
    /\ duo = variant
    /\ lreq' = Append(lreq, "POST trigger")
    /\ \E r \in {"exc", "nonjson", "not_ok", "no_txid", "txid"} :
         LET o == TriggerOutcome(variant, r)
         IN  IF o = NoLFailure
             THEN lpc' = "poll" /\ UNCHANGED <<lresult, lfailure>>
             ELSE LRaise(o.cls, o.msg)
    /\ UNCHANGED <<url, hops, cred_resp, duo, duo_page, proof, loginPoll,
                   session, depth>>
    /\ UNCHANGED <<landing, chain_end>>
    /\ UNCHANGED <<scrapeVars, callVars>>

IframeTrigger == Trigger("iframe")

UniTrigger == Trigger("universal")

NoStatus == [status |-> "none", result_url |-> FALSE]

\* the answer to a status request
StatusResps ==
    {[NoStatus EXCEPT !.status = c] :
       c \in {"exc", "nonjson", "pending", "deny", "timeout"}}
    \cup {[status |-> "allow", result_url |-> u] : u \in BOOLEAN}

\* a loop that polls without sleeping
PollIssueTimeNoSleep(t) == t

\* the moment the status request goes out: the loop sleeps first
PollIssueTime(t) == t + DUO_POLL_INTERVAL

\* a loop that polls on after a refusal
PollOutcomeDenyContinues(variant, r) ==
    IF r.status = "exc" THEN "raise_transport"
    ELSE IF r.status = "nonjson"
    THEN (IF variant = "iframe" THEN "raise_parse" ELSE "continue")
    ELSE IF r.status = "allow"
    THEN (IF r.result_url THEN "result" ELSE "raise_no_result_url")
    ELSE "continue"

\* _do_duo_iframe 432-465, _poll_duo_push 679-726: what a status answer does
PollOutcome(variant, r) ==
    IF r.status = "exc" THEN "raise_transport"
    ELSE IF r.status = "nonjson"
    THEN (IF variant = "iframe" THEN "raise_parse" ELSE "continue")
    ELSE IF r.status = "allow"
    THEN (IF r.result_url THEN "result" ELSE "raise_no_result_url")
    ELSE IF r.status = "deny" THEN "raise_denied"
    ELSE IF r.status = "timeout" THEN "raise_timeout"
    ELSE "continue"

PollFailure(o) ==
    IF o = "raise_transport" THEN [cls |-> "Exception", msg |-> "transport"]
    ELSE IF o = "raise_parse" THEN [cls |-> "Exception", msg |-> "parse"]
    ELSE IF o = "raise_no_result_url"
    THEN [cls |-> "LoginError", msg |-> "allow_no_result"]
    ELSE IF o = "raise_denied" THEN [cls |-> "LoginError", msg |-> "duo_denied"]
    ELSE [cls |-> "LoginError", msg |-> "duo_timeout"]

\* _do_duo_iframe 417-467, _poll_duo_push 669-728: one round of the loop,
\* from the test of the budget that let it in to the next reading of the
\* clock; an approval comes within the first MaxLog answers or not at all
Poll(variant) ==
    /\ lpc = "poll"
    /\ duo = variant
    /\ lreq' = Append(lreq, "POST status")
    /\ \E r \in StatusResps :
         LET issued == PollIssueTime(elapsed)
             o == PollOutcome(variant, r)
         IN  /\ r.status = "allow" => Len(status_log) < MaxLog
             /\ min_wait' = IF min_wait = -1 THEN issued - elapsed
                            ELSE Min(min_wait, issued - elapsed)
             /\ status_log' = IF Len(status_log) < MaxLog
                              THEN Append(status_log, r.status)
                              ELSE status_log
             /\ only_pending' = (only_pending /\ r.status = "pending")
             /\ last_status' = r
             /\ IF o = "continue"
                THEN \E lat \in Latencies :
                       /\ elapsed' = issued + lat
                       /\ last_issue' = issued
                       /\ IF issued + lat < DUO_POLL_TIMEOUT
                          THEN UNCHANGED <<lpc, lresult, lfailure>>
                          ELSE LRaise("LoginError", "poll_budget")
                ELSE IF o = "result"
                THEN /\ elapsed' = 0
                     /\ last_issue' = 0
                     /\ lpc' = "duo_result"
                     /\ UNCHANGED <<lresult, lfailure>>
                ELSE /\ elapsed' = elapsed
                     /\ last_issue' = issued
                     /\ LRaise(PollFailure(o).cls, PollFailure(o).msg)
    /\ UNCHANGED <<url, hops, cred_resp, duo, duo_page, proof, session,
                   depth>>
    /\ UNCHANGED <<landing, chain_end>>
    /\ UNCHANGED <<scrapeVars, callVars>>

IframePoll == Poll("iframe")

UniversalPoll == Poll("universal")

----------------------------------------------------------------------------
(* perform_login: phase 3, back to the service provider. *)

\* _do_duo_iframe 443-458: fetch the signed proof of the approval
IframeResult ==
    /\ lpc = "duo_result"
    /\ duo = "iframe"
    /\ lreq' = Append(lreq, "POST result")
    /\ \E r \in {"exc", "nonjson", "cookie", "no_cookie"} :
         /\ IF r = "exc" THEN LRaise("Exception", "transport")
            ELSE IF r = "nonjson" THEN LRaise("Exception", "parse")
            ELSE IF r = "no_cookie" THEN LRaise("LoginError", "no_auth_cookie")
            ELSE lpc' = "post_duo" /\ UNCHANGED <<lresult, lfailure>>
         /\ proof' = IF r = "cookie" THEN "cookie" ELSE proof
    /\ UNCHANGED <<url, hops, cred_resp, duo, duo_page, loginPoll, session,
                   depth>>
    /\ UNCHANGED <<landing, chain_end>>
    /\ UNCHANGED <<scrapeVars, callVars>>

NoFollow == [exc |-> FALSE, eacc |-> FALSE, saml_form |-> FALSE,
             redirect |-> FALSE, meta |-> FALSE, ticket |-> FALSE,
             login |-> FALSE, setc |-> FALSE]

\* no page yet on which the chain ended
NoChainEnd == [ended |-> FALSE, eacc |-> FALSE, login |-> FALSE]

\* the chain ended on the page of r
ChainEnd(r) == [ended |-> TRUE, eacc |-> r.eacc, login |-> r.login]

\* a response handed to _follow_post_duo_redirects
FollowResps ==
    {[NoFollow EXCEPT !.exc = TRUE]}
    \cup {r \in [exc : {FALSE}, eacc : BOOLEAN, saml_form : BOOLEAN,
                  redirect : BOOLEAN, meta : BOOLEAN, ticket : BOOLEAN,
                  login : BOOLEAN, setc : BOOLEAN] : r.ticket => r.login}

\* _follow_post_duo_redirects 803-847: what is done with a response
FollowOutcome(r) ==
    IF r.eacc THEN "return"
    ELSE IF r.saml_form THEN "saml"
    ELSE IF r.redirect \/ r.meta \/ r.ticket THEN "get"
    ELSE "direct"

\* _follow_post_duo_redirects on the response r
FollowStep(r) ==
    IF r.exc
    THEN LRaise("Exception", "transport") /\ UNCHANGED <<session, chain_end>>
    ELSE /\ session' = Update(session, SetCookie(r.setc, "target"))
         /\ chain_end' = IF FollowOutcome(r) \in {"return", "direct"}
                         THEN ChainEnd(r) ELSE chain_end
         /\ IF FollowOutcome(r) = "return" THEN LReturn
            ELSE /\ lpc' = IF FollowOutcome(r) = "saml" THEN "lsaml_post"
                           ELSE IF FollowOutcome(r) = "get" THEN "follow_get"
                           ELSE "follow_direct"
                 /\ UNCHANGED <<lresult, lfailure>>

\* _poll_duo_push 693-719: fetch the result of the approval; an answer that
\* is not JSON is itself the response the hand-back starts from
UniResult ==
    /\ lpc = "duo_result"
    /\ duo = "universal"
    /\ lreq' = Append(lreq, "POST result")
    /\ \E r \in {"exc", "redirect", "cookie", "parent", "dict_result_url",
                 "dict"} :
         /\ proof' = IF r = "exc" THEN proof ELSE r
         /\ IF r = "exc"
            THEN /\ LRaise("Exception", "transport")
                 /\ UNCHANGED <<session, chain_end>>
            ELSE IF r = "redirect"
            THEN \E f \in FollowResps : ~f.exc /\ FollowStep(f)
            ELSE /\ lpc' = "post_duo"
                 /\ UNCHANGED <<lresult, lfailure, session, chain_end>>
    /\ UNCHANGED <<url, hops, cred_resp, duo, duo_page, loginPoll, depth>>
    /\ UNCHANGED landing
    /\ UNCHANGED <<scrapeVars, callVars>>

\* a hand-back that posts the signed response whatever the variant
PostDuoRequestSigned(variant, p) == "POST sig_response"

\* _post_duo_response 737-794: the request that carries the proof back
PostDuoRequest(variant, p) ==
    IF variant = "iframe" THEN "POST sig_response"
    ELSE IF p = "parent" THEN "GET parent"
    ELSE IF p = "dict_result_url" THEN "GET result_url"
    ELSE "GET duo url"

\* _post_duo_response, then _follow_post_duo_redirects on its response
PostDuo ==
    /\ lpc = "post_duo"
    /\ lreq' = Append(lreq, PostDuoRequest(duo, proof))
    /\ \E r \in FollowResps : FollowStep(r)
    /\ UNCHANGED <<url, hops, cred_resp, duo, duo_page, proof, loginPoll,
                   depth>>
    /\ UNCHANGED landing
    /\ UNCHANGED <<scrapeVars, callVars>>

\* the calls of the hand-back are counted, and their requests logged, up to
\* MaxDepth; the code itself keeps no count and goes on calling itself, which
\* shows as depth going to and fro between MaxDepth and MaxDepth + 1
Deeper(d) == IF d <= MaxDepth THEN d + 1 ELSE MaxDepth

Logged(log, d, request) == IF d < MaxDepth THEN Append(log, request) ELSE log

\* _follow_post_duo_redirects 815-837: one more request, then itself again
FollowGet ==
    /\ lpc = "follow_get"
    /\ lreq' = Logged(lreq, depth, "GET follow")
    /\ depth' = Deeper(depth)
    /\ \E r \in FollowResps : FollowStep(r)
    /\ UNCHANGED <<url, hops, cred_resp, duo, duo_page, proof, loginPoll>>
    /\ UNCHANGED landing
    /\ UNCHANGED <<scrapeVars, callVars>>

\* the landing of a direct navigation to the application
LandingOutcome(r, origin) ==
    IF r.exc THEN [cls |-> "Exception", msg |-> "transport"]
    ELSE IF r.login THEN [cls |-> "LoginError", msg |-> origin]
    ELSE NoLFailure

DirectGet(at, origin) ==
    /\ lpc = at
    /\ lreq' = Append(lreq, "GET eaccounts")
    /\ \E r \in [exc : BOOLEAN, login : BOOLEAN, setc : BOOLEAN] :
         LET o == LandingOutcome(r, origin)
         IN  IF o = NoLFailure
             THEN /\ session' = Update(session, SetCookie(r.setc, "target"))
                  /\ LReturn
             ELSE LRaise(o.cls, o.msg) /\ UNCHANGED session
    /\ UNCHANGED <<url, hops, cred_resp, duo, duo_page, proof, loginPoll,
                   depth>>
    /\ UNCHANGED <<landing, chain_end>>
    /\ UNCHANGED <<scrapeVars, callVars>>

\* _follow_post_duo_redirects 844-854
FollowDirectGet == DirectGet("follow_direct", "not_established")

\* _complete_saml_flow 929-935
CompleteSamlDirectGet == DirectGet("lsaml_direct", "saml_not_established")

\* _complete_saml_flow 903-927: post the assertion; a nested assertion form
\* is posted by the function calling itself
CompleteSamlPost ==
    /\ lpc = "lsaml_post"
    /\ lreq' = Logged(lreq, depth, "POST SAMLResponse")
    /\ \E r \in [exc : BOOLEAN, nested : BOOLEAN, eacc : BOOLEAN,
                 login : BOOLEAN, setc : BOOLEAN] :
         /\ IF r.exc
            THEN /\ LRaise("Exception", "transport")
                 /\ UNCHANGED <<session, depth, chain_end>>
            ELSE /\ session' = Update(session, SetCookie(r.setc, "target"))
                 /\ chain_end' = IF r.nested THEN chain_end ELSE ChainEnd(r)
                 /\ IF r.nested
                    THEN /\ depth' = Deeper(depth)
                         /\ UNCHANGED <<lpc, lresult, lfailure>>
                    ELSE IF r.eacc THEN LReturn /\ UNCHANGED depth
                    ELSE /\ lpc' = "lsaml_direct"
                         /\ UNCHANGED <<lresult, lfailure, depth>>
    /\ UNCHANGED <<url, hops, cred_resp, duo, duo_page, proof, loginPoll>>
    /\ UNCHANGED landing
    /\ UNCHANGED <<scrapeVars, callVars>>

----------------------------------------------------------------------------
(* The specifications. *)

\* the locals of perform_login before its first statement
LoginStart ==
    /\ url = [cas |-> FALSE, eacc |-> TRUE]
    /\ hops = 0
    /\ cred_resp = NoCred
    /\ duo = "none"
    /\ duo_page = NoDuoPage
    /\ proof = "none"
    /\ elapsed = 0
    /\ last_issue = 0
    /\ min_wait = -1
    /\ status_log = <<>>
    /\ only_pending = TRUE
    /\ last_status = NoStatus
    /\ lreq = <<>>
    /\ lfailure = NoLFailure
    /\ lresult = "none"
    /\ session = EmptyDict
    /\ depth = 0
    /\ landing = NotLanded
    /\ chain_end = NoChainEnd

\* a scraper over the files a previous login left, no login running
Init ==
    /\ ScrapeInit
    /\ lpc = "idle"
    /\ LoginStart
    /\ CallIdle

Next ==
    \/ \E o \in {"balance", "transactions"} : StartOp(o)
    \/ FetchGet
    \/ RefreshPostRequest
    \/ SamlPost
    \/ SamlDirectGet
    \/ FetchRetry
    \/ AjaxPost

Spec == Init /\ [][Next]_vars

\* one call of perform_login, no scrape running
LoginInit ==
    /\ ScrapeInit
    /\ cookies_file = NoFile
    /\ sso_cookies_file = NoSso
    /\ lpc = "nav"
    /\ LoginStart
    /\ CallIdle

LoginNext ==
    \/ NavGet
    \/ NavSamlPost
    \/ CredPost
    \/ DuoMetaGet
    \/ DuoInit
    \/ UniSkipPreauth
    \/ UniPreauth
    \/ UniPromptData
    \/ IframeTrigger
    \/ UniTrigger
    \/ IframePoll
    \/ UniversalPoll
    \/ IframeResult
    \/ UniResult
    \/ PostDuo
    \/ FollowGet
    \/ FollowDirectGet
    \/ CompleteSamlPost
    \/ CompleteSamlDirectGet

LoginSpec == LoginInit /\ [][LoginNext]_vars

----------------------------------------------------------------------------
(* Claims about the scrape engine, checked under Spec. *)

FirstGetWasSamlPage ==
    /\ Len(get_resps) >= 1
    /\ ~get_resps[1].exc
    /\ get_resps[1].status = 200
    /\ get_resps[1].marker

\* _fetch_page has returned or raised
FetchEnded == pc \in {"post", "done"}

\* C1, as claimed: when the first GET of a page fetch returns 200 with the
\* auto-submitting form, the refresher is invoked exactly once and the GET is
\* retried exactly once; a second such page after the refresh ends the fetch
\* with SessionExpired; no fetch invokes the refresher twice or issues more
\* than two page GETs.
C1_AsClaimed ==
    /\ Count("CALL refresh") <= 1
    /\ Count("GET page") <= 2
    /\ (FetchEnded /\ FirstGetWasSamlPage) =>
          (Count("CALL refresh") = 1 /\ Count("GET page") = 2)
    /\ (Len(get_resps) = 2 /\ get_resps[2].marker) =>
          (failure.cls = "SessionExpiredError" /\ result = "session_expired")

\* C1, amended: when the first GET of a page fetch returns 200 with the
\* auto-submitting form, the refresher is invoked exactly once; the GET is
\* retried exactly once when the refresher succeeds and not at all when it
\* fails (the fetch then ends with SessionExpired); a second such page after
\* the refresh ends the fetch with SessionExpired; no fetch invokes the
\* refresher twice or issues more than two page GETs.
C1_RefreshOnceRetryOnce ==
    /\ Count("CALL refresh") <= 1
    /\ Count("GET page") <= 2
    /\ (FetchEnded /\ FirstGetWasSamlPage) =>
          /\ Count("CALL refresh") = 1
          /\ refresh_state \in {"ok", "failed"}
          /\ (refresh_state = "ok" => Count("GET page") = 2)
          /\ (refresh_state = "failed" =>
                /\ Count("GET page") = 1
                /\ result = "session_expired")
    /\ (Len(get_resps) = 2 /\ get_resps[2].marker) =>
          (failure.cls = "SessionExpiredError" /\ result = "session_expired")

\* a fetch that was refreshed, retried and met the SAML page again
C1_Witness ==
    /\ FirstGetWasSamlPage
    /\ refresh_state = "ok"
    /\ Len(get_resps) = 2
    /\ get_resps[2].marker
    /\ result = "session_expired"

\* C2, as claimed: for every GET of a page fetch (the first and the retry)
\* and every 3xx status, a redirect whose target carries a login/SSO marker
\* ends the fetch with SessionExpired, and every other non-200 response ends
\* it with an error that is not SessionExpired.
C2_AsClaimed ==
    \A i \in DOMAIN get_resps :
        LET r == get_resps[i]
            to_login == r.status \in Redirects /\ r.loc_login
        IN  /\ (~r.exc /\ to_login) => failure.cls = "SessionExpiredError"
            /\ (~r.exc /\ r.status # 200 /\ ~to_login) =>
                  failure.cls = "Exception"

\* C3, as claimed: the postback for every page n >= 2 sends, for the
\* view-state, event-validation and view-state-generator fields, the values
\* the preceding postback returned, never the values of the initial page.
C3_AsClaimed ==
    (pc = "post" /\ page_num >= 2) =>
        \A n \in TokenNames :
            /\ page_form[n] # form_data[n]
            /\ n \in DOMAIN delta_parts.hidden
            /\ page_form[n] = delta_parts.hidden[n]

\* the identity provider answered the replayed form with an assertion
AssertionIssued == idp_resp.seen /\ idp_resp.saml_form

RefreshEnded == refresh_state \in {"ok", "failed"}

\* the requests a refresh may issue: no credentials, no second factor
SilentRequests ==
    {"GET page", "CALL refresh", "POST SAMLRequest", "POST SAMLResponse",
     "GET eaccounts", "POST postback"}

C9_AsClaimed ==
    (RefreshEnded /\ idp_resp.seen /\ idp_resp.login /\ ~idp_resp.saml_form) =>
        (refresh_state = "failed" /\ failure.cls = "SessionExpiredError")

\* C10, as claimed: a transport or parse failure anywhere in a scrape
\* operation, the refresh cycle included, is never reported to the caller
\* as session_expired.
C10_AsClaimed ==
    failure.origin \in {"transport", "parse", "storage"} =>
        result # "session_expired"

----------------------------------------------------------------------------
(* Claims about perform_login, checked under LoginSpec. *)

DuoRequests == {"GET duo prompt", "POST duo auth", "POST preauth",
                "GET prompt data", "POST trigger", "POST status",
                "POST result"}

LastRequest == IF lreq = <<>> THEN "none" ELSE lreq[Len(lreq)]

\* C4: when the response to the credentials contains "Invalid credentials",
\* perform_login fails with the invalid-credentials failure and issues no
\* second-factor request: no detection fetch, no trigger, no status poll.
C4_InvalidCredentialsStop ==
    cred_resp.invalid =>
        /\ lpc = "done"
        /\ lresult = "raised"
        /\ lfailure = [cls |-> "LoginError", msg |-> "invalid_credentials"]
        /\ \A i \in DOMAIN lreq : lreq[i] \notin DuoRequests

\* the error text came on a page that also carries a challenge
C4_Witness ==
    /\ cred_resp.invalid
    /\ cred_resp.iframe = "ok"
    /\ cred_resp.duo_url
    /\ lpc = "done"
    /\ LastRequest = "POST credentials"

ApprovedOnThird == status_log = <<"pending", "pending", "allow">>

PollingLeft == lpc \notin {"poll", "duo_result"}

C6_AsClaimed ==
    (only_pending /\ status_log # <<>>) =>
        /\ last_issue <= DUO_POLL_TIMEOUT
        /\ lpc = "done" =>
             lfailure = [cls |-> "LoginError", msg |-> "poll_budget"]

\* C7: in both variants, once a status answer is deny or timeout the attempt
\* fails: no status poll, no result fetch and no push trigger follows it.
C7_RefusalIsFinal ==
    last_status.status \in {"deny", "timeout"} =>
        /\ lpc = "done"
        /\ lresult = "raised"
        /\ lfailure.cls = "LoginError"
        /\ lfailure.msg = (IF last_status.status = "deny" THEN "duo_denied"
                           ELSE "duo_timeout")
        /\ LastRequest = "POST status"
        /\ LCount("POST result") = 0
        /\ LCount("POST trigger") = 1

C7_Witness ==
    /\ last_status.status = "deny"
    /\ duo = "universal"
    /\ LCount("POST status") = 2
    /\ lpc = "done"

----------------------------------------------------------------------------
(* Further claims about the scrape engine, checked under Spec. *)

\* C11: get_balance and get_transactions never raise: whatever the requests
\* do, the operation returns a success result or an error result, and the
\* error is session_expired exactly when the failure is SessionExpired and
\* the message of the failure otherwise.
C11_NeverRaises ==
    /\ result \in {"none", "success", "session_expired", "error"}
    /\ pc = "done" =>
         /\ result # "none"
         /\ result = "success" <=> failure = NoFailure
         /\ result = "session_expired" <=> failure.cls = "SessionExpiredError"
         /\ result = "error" <=> failure.cls = "Exception"

\* a postback of a later page failed by itself and came back as an error
C11_Witness ==
    /\ pc = "done"
    /\ op = "transactions"
    /\ page_num >= 2
    /\ failure = Exc("Exception", "transport")
    /\ result = "error"

\* C12: when a postback of get_transactions fails after one or more pages
\* were fetched, the result is an error result without transactions: the
\* rows of the earlier pages are not returned with, or instead of, the error.
C12_PartialPagesDiscarded ==
    (pc = "done" /\ op = "transactions" /\ failure # NoFailure) =>
        /\ result \in {"session_expired", "error"}
        /\ transactions = Absent

\* rows were collected, then the postback for page 2 failed
C12_Witness ==
    /\ pc = "done"
    /\ op = "transactions"
    /\ failure # NoFailure
    /\ page_num >= 2
    /\ all_transactions >= 1
    /\ transactions = Absent

\* C13: no scrape operation (get_balance, get_transactions, the keep-alive's
\* get_balance) starts a full login: every request it issues is one of the
\* cookie-only requests (no credentials, no second-factor push), and when
\* the refresher fails the operation ends with the session_expired error.
C13_NoLoginFromScrape ==
    /\ \A i \in DOMAIN reqlog : reqlog[i] \in SilentRequests
    /\ Count("CALL refresh") <= 1
    /\ refresh_state = "failed" =>
          /\ pc = "done"
          /\ result = "session_expired"
          /\ transactions = Absent

\* the identity provider refused the replayed form and the operation ended
C13_Witness ==
    /\ refresh_state = "failed"
    /\ Count("POST SAMLRequest") = 1
    /\ idp_resp.seen
    /\ idp_resp.login
    /\ result = "session_expired"

----------------------------------------------------------------------------
(* The delta codec: _parse_delta_response as a single call.  A text is a  *)
(* sequence of characters; positions are 0-based as in the source.        *)

\* no scrape operation and no login is under way
Quiescent ==
    /\ ScrapeInit
    /\ cookies_file = NoFile
    /\ sso_cookies_file = NoSso
    /\ lpc = "idle"
    /\ LoginStart

MaxParts == 2
MaxTail == 5

Digits == {"0", "1", "2", "3", "4", "5", "6", "7", "8", "9"}

DigitVal ==
    [c \in Digits |->
        CASE c = "0" -> 0 [] c = "1" -> 1 [] c = "2" -> 2 [] c = "3" -> 3
          [] c = "4" -> 4 [] c = "5" -> 5 [] c = "6" -> 6 [] c = "7" -> 7
          [] c = "8" -> 8 [] c = "9" -> 9]

RECURSIVE DecValue(_)
\* the number a string of digits denotes in base 10
DecValue(s) ==
    IF s = <<>> THEN 0
    ELSE 10 * DecValue(SubSeq(s, 1, Len(s) - 1)) + DigitVal[s[Len(s)]]

RECURSIVE DecString(_)
\* str(n) of a natural number
DecString(n) ==
    IF n < 10 THEN <<CHOOSE c \in Digits : DigitVal[c] = n>>
    ELSE DecString(n \div 10) \o DecString(n % 10)

\* text[a:b]
Slice(s, a, b) == SubSeq(s, a + 1, Min(b, Len(s)))

\* text.find(ch, pos)
Find(s, ch, pos) ==
    IF \E i \in pos .. Len(s) - 1 : s[i + 1] = ch
    THEN CHOOSE i \in pos .. Len(s) - 1 :
            /\ s[i + 1] = ch
            /\ \A j \in pos .. i - 1 : s[j + 1] # ch
    ELSE -1

RECURSIVE Strip(_)
\* the whitespace int() ignores around the number
Strip(s) ==
    IF s = <<>> THEN s
    ELSE IF Head(s) = " " THEN Strip(Tail(s))
    ELSE IF s[Len(s)] = " " THEN Strip(SubSeq(s, 1, Len(s) - 1))
    ELSE s

\* int(text[pos:pipe1]) with its ValueError, on texts of digits, blanks,
\* letters and separators (no sign, no underscore)
PyInt(s) ==
    IF Strip(s) # <<>> /\ \A i \in DOMAIN Strip(s) : Strip(s)[i] \in Digits
    THEN [ok |-> TRUE, value |-> DecValue(Strip(s))]
    ELSE [ok |-> FALSE, value |-> 0]

\* a codec that reads the content up to the next separator
ContentToSeparator(s, pos, length) ==
    IF Find(s, "|", pos) = -1 THEN Slice(s, pos, Len(s))
    ELSE Slice(s, pos, Find(s, "|", pos))

\* _parse_delta_response 347: content = text[pos:pos + length]
Content(s, pos, length) == Slice(s, pos, pos + length)

RECURSIVE ParseFrom(_, _, _)
\* _parse_delta_response 324-350: the loop, from position pos on, with the
\* parts decoded so far
ParseFrom(s, pos, acc) ==
    IF ~(pos < Len(s)) THEN acc
    ELSE LET pipe1 == Find(s, "|", pos)
             length == PyInt(Slice(s, pos, pipe1))
             pipe2 == Find(s, "|", pipe1 + 1)
             pipe3 == Find(s, "|", pipe2 + 1)
         IN  IF pipe1 = -1 THEN acc
             ELSE IF ~length.ok THEN acc
             ELSE IF pipe2 = -1 THEN acc
             ELSE IF pipe3 = -1 THEN acc
             ELSE ParseFrom(s, pipe3 + 1 + length.value + 1,
                    Append(acc,
                        [type |-> Slice(s, pipe1 + 1, pipe2),
                         id |-> Slice(s, pipe2 + 1, pipe3),
                         content |-> Content(s, pipe3 + 1, length.value)]))

\* _parse_delta_response 320-354
parse_delta_response(s) == ParseFrom(s, 0, <<>>)

\* the format of a part: length|type|id|content|
EncodePart(p) ==
    DecString(Len(p.content)) \o <<"|">> \o p.type \o <<"|">> \o p.id
        \o <<"|">> \o p.content \o <<"|">>

RECURSIVE Encode(_)
Encode(ps) ==
    IF ps = <<>> THEN <<>> ELSE EncodePart(Head(ps)) \o Encode(Tail(ps))

\* the parts a server sends: update panels whose content holds separators,
\* hidden fields, an empty part
SentParts ==
    {[type |-> <<"u">>, id |-> <<"g">>, content |-> <<"a", "|", "0">>],
     [type |-> <<"h">>, id |-> <<"v">>, content |-> <<"1">>],
     [type |-> <<>>, id |-> <<>>, content |-> <<>>]}

SentSeqs == UNION {[1 .. n -> SentParts] : n \in 0 .. MaxParts}

\* what may follow the last well-formed part
TailChars == {"|", "0", " ", "a"}

Tails == UNION {[1 .. n -> TailChars] : n \in 0 .. MaxTail}

\* one call of _parse_delta_response
ParseDeltaResponse ==
    /\ cpc = "input"
    /\ parts' = parse_delta_response(text)
    /\ cpc' = "returned"
    /\ UNCHANGED text
    /\ UNCHANGED notDelta

DeltaInit ==
    /\ Quiescent
    /\ cpc = "input"
    /\ text \in {Encode(ps) \o t : ps \in SentSeqs, t \in Tails}
    /\ parts = <<>>
    /\ RowsIdle
    /\ DateIdle
    /\ ApiIdle
    /\ LoadIdle
    /\ SearchIdle
    /\ RaceIdle
    /\ LoopIdle

DeltaNext == ParseDeltaResponse

DeltaSpec == DeltaInit /\ [][DeltaNext]_vars

----------------------------------------------------------------------------
(* Claims about the delta codec, checked under DeltaSpec. *)

\* a length field as the format writes it: the decimal numeral of a count
IsNumeral(f) ==
    /\ f # <<>>
    /\ \A i \in DOMAIN f : f[i] \in Digits
    /\ Len(f) > 1 => f[1] # "0"

\* a decimal number, leading zeros allowed
IsDecimal(f) == f # <<>> /\ \A i \in DOMAIN f : f[i] \in Digits

RECURSIVE WellFormedFrom(_, _, _)
\* the well-formed parts a text starts with, read from position pos on, and
\* the position at which they end
WellFormedFrom(s, pos, acc) ==
    LET pipe1 == Find(s, "|", pos)
        f == Slice(s, pos, pipe1)
        pipe2 == Find(s, "|", pipe1 + 1)
        pipe3 == Find(s, "|", pipe2 + 1)
        stop_ == pipe3 + 1 + DecValue(f)
    IN  IF \/ ~(pos < Len(s))
           \/ pipe1 = -1
           \/ ~IsNumeral(f)
           \/ pipe2 = -1
           \/ pipe3 = -1
        THEN [parts |-> acc, pos |-> pos]
        ELSE IF ~(stop_ < Len(s)) THEN [parts |-> acc, pos |-> pos]
        ELSE IF s[stop_ + 1] # "|" THEN [parts |-> acc, pos |-> pos]
        ELSE WellFormedFrom(s, stop_ + 1,
                Append(acc, [type |-> Slice(s, pipe1 + 1, pipe2),
                             id |-> Slice(s, pipe2 + 1, pipe3),
                             content |-> Slice(s, pipe3 + 1, stop_)]))

WellFormedPrefix(s) == WellFormedFrom(s, 0, <<>>)

\* the whole text is a concatenation of well-formed parts
WellFormed(s) == WellFormedPrefix(s).pos = Len(s)

\* after its well-formed parts the text goes on with a part whose length
\* field is cut off (no separator ends it) or is not a decimal number
MalformedLength(s) ==
    LET pos == WellFormedPrefix(s).pos
        pipe1 == Find(s, "|", pos)
    IN  /\ pos < Len(s)
        /\ \/ pipe1 = -1
           \/ ~IsDecimal(Slice(s, pos, pipe1))

\* C14: for every delta response that is a well-formed concatenation of
\* length|type|id|content| parts, decoding it with _parse_delta_response and
\* re-encoding the decoded parts in order reproduces the text exactly.
C14_RoundTrip ==
    (cpc = "returned" /\ WellFormed(text)) => Encode(parts) = text

\* two parts were decoded, one with separators inside its content
C14_Witness ==
    /\ cpc = "returned"
    /\ WellFormed(text)
    /\ Len(parts) = 2
    /\ parts[1].content = <<"a", "|", "0">>
    /\ Encode(parts) = text

\* C15, as claimed: for k well-formed parts followed by a part whose length
\* field is truncated or not a decimal number, _parse_delta_response returns
\* exactly the k parts decoded before the malformation (and does not raise).
C15_AsClaimed ==
    (cpc = "returned" /\ MalformedLength(text)) =>
        parts = WellFormedPrefix(text).parts

----------------------------------------------------------------------------
(* The markup extractor: _parse_transaction_rows as a single call.  A row *)
(* is the number of its td cells and the stripped text of the first one.  *)

MaxTableRows == 2

\* ^\d{1,2}/\d{1,2}/\d{4} matched at the start of a cell text
DateMatch(s) ==
    \E a \in {1, 2}, b \in {1, 2} :
        /\ Len(s) >= a + b + 6
        /\ \A i \in 1 .. a : s[i] \in Digits
        /\ s[a + 1] = "/"
        /\ \A i \in a + 2 .. a + b + 1 : s[i] \in Digits
        /\ s[a + b + 2] = "/"
        /\ \A i \in a + b + 3 .. a + b + 6 : s[i] \in Digits

\* the highest index the record of a row reads: row[5]
LastIndexRead == 5

RECURSIVE RowsFrom(_, _, _)
\* _parse_transaction_rows 403-417: the loop over the tr elements, from row
\* i on, with the records appended so far; an IndexError ends the call
RowsFrom(rows, i, acc) ==
    IF i > Len(rows) THEN [raised |-> FALSE, records |-> acc]
    ELSE IF rows[i].tds < 3 THEN RowsFrom(rows, i + 1, acc)
    ELSE IF ~(rows[i].first # <<>> /\ DateMatch(rows[i].first))
         THEN RowsFrom(rows, i + 1, acc)
    ELSE IF ~(LastIndexRead < rows[i].tds)
         THEN [raised |-> TRUE, records |-> <<>>]
    ELSE RowsFrom(rows, i + 1,
                  Append(acc, [row |-> i, date |-> rows[i].first]))

\* _parse_transaction_rows 399-419
parse_transaction_rows(rows) == RowsFrom(rows, 1, <<>>)

\* first cells: transaction dates, a two-digit year, a date after other
\* text, a column title, the numbers of a pager, an empty cell
FirstCells ==
    {<<"1", "/", "2", "/", "2", "0", "2", "6">>,
     <<"1", "2", "/", "3", "1", "/", "2", "0", "2", "5", " ", "9", ":",
       "0", "5", " ", "A", "M">>,
     <<"1", "/", "2", "/", "2", "6">>,
     <<"x", "1", "/", "2", "/", "2", "0", "2", "6">>,
     <<"D", "a", "t", "e">>,
     <<"1", "2">>,
     <<>>}

\* rows of th cells only (no td), pager and filler rows, transaction rows
TableRows ==
    {r \in [tds : {0, 1, 2, 3, 5, 6, 7}, first : FirstCells] :
        r.tds = 0 => r.first = <<>>}

\* one call of _parse_transaction_rows
ParseTransactionRows ==
    /\ cpc = "input"
    /\ parsed_rows' = parse_transaction_rows(trs)
    /\ cpc' = "returned"
    /\ UNCHANGED trs
    /\ UNCHANGED notRows

RowsInit ==
    /\ Quiescent
    /\ cpc = "input"
    /\ trs \in UNION {[1 .. n -> TableRows] : n \in 0 .. MaxTableRows}
    /\ parsed_rows = [raised |-> FALSE, records |-> <<>>]
    /\ DeltaIdle
    /\ DateIdle
    /\ ApiIdle
    /\ LoadIdle
    /\ SearchIdle
    /\ RaceIdle
    /\ LoopIdle

RowsNext == ParseTransactionRows

RowsSpec == RowsInit /\ [][RowsNext]_vars

----------------------------------------------------------------------------
(* Claims about the markup extractor, checked under RowsSpec. *)

\* the call returned a record for row i
HasRecord(i) ==
    \E k \in DOMAIN parsed_rows.records : parsed_rows.records[k].row = i

\* C16, as claimed: _parse_transaction_rows returns a record for a table row
\* if and only if the first cell of the row starts with a date pattern, and
\* no row makes the extraction fail.
C16_AsClaimed ==
    cpc = "returned" =>
        /\ ~parsed_rows.raised
        /\ \A i \in DOMAIN trs :
              trs[i].tds >= 1 => (HasRecord(i) <=> DateMatch(trs[i].first))

----------------------------------------------------------------------------
(* The date helpers of the search form: _to_telerik_date and              *)
(* _to_client_state as single calls on a date text.                       *)

\* a number in two digits, as %m %d %H %M %S print it
Pad2(n) == IF n < 10 THEN <<"0">> \o DecString(n) ELSE DecString(n)

\* an hour read by %I %p that forgets that 12 AM is midnight
Hour24NoMidnight(hour12, ampm) ==
    IF ampm = <<"P", "M">> /\ hour12 # 12 THEN hour12 + 12 ELSE hour12

\* the hour of the day of an hour read by %I with %p
Hour24(hour12, ampm) ==
    IF ampm = <<"A", "M">>
    THEN (IF hour12 = 12 THEN 0 ELSE hour12)
    ELSE (IF hour12 = 12 THEN 12 ELSE hour12 + 12)

DaysIn(month, year) ==
    IF month = 2
    THEN (IF year % 4 = 0 /\ (year % 100 # 0 \/ year % 400 = 0)
          THEN 29 ELSE 28)
    ELSE IF month \in {4, 6, 9, 11} THEN 30 ELSE 31

\* datetime.strptime(date_str, '%m/%d/%Y %I:%M %p') with its ValueError
Strptime(s) ==
    LET s1 == Find(s, "/", 0)
        s2 == Find(s, "/", s1 + 1)
        b1 == Find(s, " ", s2 + 1)
        c1 == Find(s, ":", b1 + 1)
        b2 == Find(s, " ", c1 + 1)
        fm == Slice(s, 0, s1)
        fd == Slice(s, s1 + 1, s2)
        fy == Slice(s, s2 + 1, b1)
        fh == Slice(s, b1 + 1, c1)
        fi == Slice(s, c1 + 1, b2)
        fp == Slice(s, b2 + 1, Len(s))
        num(f, lo, hi) ==
            /\ f # <<>>
            /\ Len(f) <= 2
            /\ \A i \in DOMAIN f : f[i] \in Digits
            /\ DecValue(f) \in lo .. hi
    IN  IF /\ s1 # -1 /\ s2 # -1 /\ b1 # -1 /\ c1 # -1 /\ b2 # -1
           /\ num(fm, 1, 12)
           /\ Len(fy) = 4 /\ \A i \in DOMAIN fy : fy[i] \in Digits
           /\ DecValue(fy) >= 1
           /\ num(fd, 1, DaysIn(DecValue(fm), DecValue(fy)))
           /\ num(fh, 1, 12)
           /\ num(fi, 0, 59)
           /\ fp \in {<<"A", "M">>, <<"P", "M">>}
        THEN [ok |-> TRUE, year |-> DecValue(fy), month |-> DecValue(fm),
              day |-> DecValue(fd), hour |-> Hour24(DecValue(fh), fp),
              minute |-> DecValue(fi), second |-> 0]
        ELSE [ok |-> FALSE, year |-> 0, month |-> 0, day |-> 0, hour |-> 0,
              minute |-> 0, second |-> 0]

\* dt.strftime('%Y-%m-%d-%H-%M-%S'), for years of four digits
Strftime(dt) ==
    DecString(dt.year) \o <<"-">> \o Pad2(dt.month) \o <<"-">>
        \o Pad2(dt.day) \o <<"-">> \o Pad2(dt.hour) \o <<"-">>
        \o Pad2(dt.minute) \o <<"-">> \o Pad2(dt.second)

\* what stands for a ValueError that left the helper
ValueError == <<"V", "a", "l", "u", "e", "E", "r", "r", "o", "r">>

\* _to_telerik_date 378-382
to_telerik_date(s) ==
    IF Strptime(s).ok THEN Strftime(Strptime(s)) ELSE ValueError

\* _to_client_state 384-396: the fields of the blob that depend on the input
to_client_state(s) ==
    IF Strptime(s).ok
    THEN [validationText |-> Strftime(Strptime(s)),
          valueAsString |-> Strftime(Strptime(s)),
          lastSetTextBoxValue |-> s]
    ELSE [validationText |-> ValueError, valueAsString |-> ValueError,
          lastSetTextBoxValue |-> ValueError]

\* a date text in the 'M/D/YYYY h:mm AM' format
DateText(month, day, year, hour12, minute, ampm) ==
    DecString(month) \o <<"/">> \o DecString(day) \o <<"/">>
        \o DecString(year) \o <<" ">> \o DecString(hour12) \o <<":">>
        \o Pad2(minute) \o <<" ">> \o ampm

\* the valid date texts the calls are made with
DateTexts ==
    {DateText(mo, d, y, h, mi, ap) :
        mo \in {2, 12}, d \in {1, 29, 31}, y \in {2024, 2026},
        h \in {1, 11, 12}, mi \in {0, 5, 59},
        ap \in {<<"A", "M">>, <<"P", "M">>}}

\* one call of _to_telerik_date
ToTelerikDate ==
    /\ cpc = "input"
    /\ telerik = <<>>
    /\ telerik' = to_telerik_date(date_str)
    /\ cpc' = IF client_state = NoClientState THEN "input" ELSE "returned"
    /\ UNCHANGED <<date_str, client_state>>
    /\ UNCHANGED notDate

\* one call of _to_client_state
ToClientState ==
    /\ cpc = "input"
    /\ client_state = NoClientState
    /\ client_state' = to_client_state(date_str)
    /\ cpc' = IF telerik = <<>> THEN "input" ELSE "returned"
    /\ UNCHANGED <<date_str, telerik>>
    /\ UNCHANGED notDate

DateInit ==
    /\ Quiescent
    /\ cpc = "input"
    /\ date_str \in {s \in DateTexts : Strptime(s).ok}
    /\ telerik = <<>>
    /\ client_state = NoClientState
    /\ DeltaIdle
    /\ RowsIdle
    /\ ApiIdle
    /\ LoadIdle
    /\ SearchIdle
    /\ RaceIdle
    /\ LoopIdle

DateNext == ToTelerikDate \/ ToClientState

DateSpec == DateInit /\ [][DateNext]_vars

----------------------------------------------------------------------------
(* Claims about the date helpers, checked under DateSpec. *)

\* C17: for every valid date text in the 'M/D/YYYY h:mm AM' format the blob
\* built by _to_client_state carries as validationText and as valueAsString
\* exactly the string _to_telerik_date returns for the same input; for
\* "2/1/2026 12:00 AM" that string is "2026-02-01-00-00-00".
C17_ClientStateCarriesTelerikDate ==
    /\ cpc = "returned" =>
          /\ telerik # ValueError
          /\ client_state.validationText = telerik
          /\ client_state.valueAsString = telerik
    /\ (telerik # <<>> /\ date_str = DateText(2, 1, 2026, 12, 0, <<"A", "M">>))
          => telerik = <<"2", "0", "2", "6", "-", "0", "2", "-", "0", "1",
                         "-", "0", "0", "-", "0", "0", "-", "0", "0">>

\* both helpers were called with "2/1/2026 12:00 AM"
C17_Witness ==
    /\ cpc = "returned"
    /\ date_str = <<"2", "/", "1", "/", "2", "0", "2", "6", " ", "1", "2",
                    ":", "0", "0", " ", "A", "M">>
    /\ client_state.valueAsString =
          <<"2", "0", "2", "6", "-", "0", "2", "-", "0", "1",
            "-", "0", "0", "-", "0", "0", "-", "0", "0">>

----------------------------------------------------------------------------
(* The Login call of the HTTP interface: api.login with playwright_login  *)
(* and _extract_cookies, as one handler.                                  *)

\* an extraction that keeps the cookies of every domain
AnyDomain(domain) == TRUE

\* _extract_cookies 177: 'transactcampus.com' in c['domain']
IsEaccountsDomain(domain) == domain \in {EACCOUNTS_HOST, ".transactcampus.com"}

\* _extract_cookies 157-185: (eaccounts_cookies, all_cookies)
extract_cookies(cs) ==
    [eaccounts_cookies |->
        KeptFrom(cs, EmptyDict,
                 {x \in CookieDomains : IsEaccountsDomain(x)}),
     all_cookies |-> cs]

\* what playwright_login comes to: it raises LoginError, it raises another
\* exception (a timeout of the browser), or it returns the extracted cookies
PlaywrightOutcomes == {"LoginError", "Exception", "returned"}

\* opening a file for writing and dumping into it: done, refused at open,
\* or failed during the dump, after the file was emptied
WriteOutcomes == {"ok", "open_failed", "dump_failed"}

\* with open(name, 'wb') as f: pickle.dump(value, f)
Written(old, value, w) ==
    IF w = "ok" THEN Pkl(value)
    ELSE IF w = "dump_failed" THEN CutPkl
    ELSE old

ApiResult(shape, code) == [shape |-> shape, code |-> code]

\* api.login 67-100
Login ==
    /\ cpc = "input"
    /\ cpc' = "returned"
    /\ \E env_set \in BOOLEAN, o \in PlaywrightOutcomes, cs \in CookieLists,
          w1 \in WriteOutcomes, w2 \in WriteOutcomes :
         IF ~env_set
         THEN /\ api_result' = ApiResult("error", 400)
              /\ UNCHANGED <<browser_cookies, cookies_pkl, sso_cookies_pkl>>
         ELSE IF o = "LoginError"
         THEN /\ api_result' = ApiResult("error", 401)
              /\ UNCHANGED <<browser_cookies, cookies_pkl, sso_cookies_pkl>>
         ELSE IF o = "Exception"
         THEN /\ api_result' = ApiResult("error", 500)
              /\ UNCHANGED <<browser_cookies, cookies_pkl, sso_cookies_pkl>>
         ELSE /\ browser_cookies' = cs
              /\ IF extract_cookies(cs).eaccounts_cookies = EmptyDict
                 THEN /\ api_result' = ApiResult("error", 500)
                      /\ UNCHANGED <<cookies_pkl, sso_cookies_pkl>>
                 ELSE /\ cookies_pkl' =
                            Written(cookies_pkl,
                                    extract_cookies(cs).eaccounts_cookies, w1)
                      /\ sso_cookies_pkl' =
                            IF w1 = "ok"
                            THEN Written(sso_cookies_pkl,
                                         extract_cookies(cs).all_cookies, w2)
                            ELSE sso_cookies_pkl
                      /\ api_result' =
                            IF w1 = "ok" /\ w2 = "ok"
                            THEN ApiResult("success", 200)
                            ELSE ApiResult("error", 500)
    /\ UNCHANGED prev_pkl
    /\ UNCHANGED notApi

\* the files an earlier login left
OldPkls ==
    {<<NoPkl, NoPkl>>,
     <<Pkl([n \in {"sid"} |-> "old"]),
       Pkl(<<[name |-> "sid", value |-> "old", domain |-> EACCOUNTS_HOST],
             [name |-> "tgc", value |-> "old", domain |-> "sso.gatech.edu"]>>)>>}

ApiInit ==
    /\ Quiescent
    /\ cpc = "input"
    /\ browser_cookies = <<>>
    /\ prev_pkl \in OldPkls
    /\ cookies_pkl = prev_pkl[1]
    /\ sso_cookies_pkl = prev_pkl[2]
    /\ api_result = NoApiResult
    /\ DeltaIdle
    /\ RowsIdle
    /\ DateIdle
    /\ LoadIdle
    /\ SearchIdle
    /\ RaceIdle
    /\ LoopIdle

ApiNext == Login

ApiSpec == ApiInit /\ [][ApiNext]_vars

----------------------------------------------------------------------------
(* Claims about the Login call, checked under ApiSpec. *)

\* the cookie domains that belong to the target application
TargetApplicationDomains == {EACCOUNTS_HOST, ".transactcampus.com"}

\* C18: after every successful login, each cookie of the persisted target
\* cookie set also appears, with the same name and value and a domain of the
\* target application, in the persisted federation cookie set.
C18_TargetCookiesInFederationSet ==
    api_result.shape = "success" =>
        /\ cookies_pkl.state = "ok"
        /\ sso_cookies_pkl.state = "ok"
        /\ \A n \in DOMAIN cookies_pkl.d :
              \E k \in DOMAIN sso_cookies_pkl.d :
                  /\ sso_cookies_pkl.d[k].name = n
                  /\ sso_cookies_pkl.d[k].value = cookies_pkl.d[n]
                  /\ sso_cookies_pkl.d[k].domain \in TargetApplicationDomains

\* a login whose browser held a target cookie and one of the identity
\* provider under the same name
C18_Witness ==
    /\ api_result.shape = "success"
    /\ Len(browser_cookies) = 2
    /\ browser_cookies[1].name = browser_cookies[2].name
    /\ browser_cookies[1].domain = EACCOUNTS_HOST
    /\ browser_cookies[2].domain = "sso.gatech.edu"
    /\ browser_cookies[1].value # browser_cookies[2].value

\* C19, as claimed: a Login call has two outcomes: the success shape with
\* both persisted cookie sets overwritten with the cookies of that login, or
\* an error shape with both persisted cookie sets unchanged.
C19_AsClaimed ==
    cpc = "returned" =>
        \/ /\ api_result.shape = "success"
           /\ cookies_pkl = Pkl(extract_cookies(browser_cookies).eaccounts_cookies)
           /\ sso_cookies_pkl = Pkl(extract_cookies(browser_cookies).all_cookies)
        \/ /\ api_result.shape = "error"
           /\ <<cookies_pkl, sso_cookies_pkl>> = prev_pkl

----------------------------------------------------------------------------
(* The cookie store's bootstrap: the constructor DiningBalanceScraper()   *)
(* with load_cookies, as a single call.                                   *)

FlatMappings ==
    UNION {[ns -> CookieValues] : ns \in SUBSET CookieNames}

\* the values INITIAL_COOKIES may decode to
EnvDocuments ==
    {[kind |-> k, cookies |-> <<>>, d |-> <<>>] :
        k \in {"unset", "garbage", "other"}}
      \cup {[kind |-> "state", cookies |-> cs, d |-> <<>>] : cs \in CookieLists}
      \cup {[kind |-> "flat", cookies |-> <<>>, d |-> m] : m \in FlatMappings}

\* DiningBalanceScraper.__init__ 30-34
Construct ==
    /\ cpc = "input"
    /\ cpc' = load_cookies(cookies_file, initial_cookies).how
    /\ cookie_dict' = load_cookies(cookies_file, initial_cookies).cookie_dict
    /\ cookies_file' = load_cookies(cookies_file, initial_cookies).file
    /\ UNCHANGED <<pc, op, sso_cookies_file, refreshVars, reqlog, get_resps,
                   failure, result, transactions, formVars>>
    /\ UNCHANGED <<loginVars, deltaVars, rowVars, dateVars, apiVars, loadVars,
                   searchVars, raceVars, loopVars>>

LoadInit ==
    /\ ScrapeInit
    /\ sso_cookies_file = NoSso
    /\ lpc = "idle"
    /\ LoginStart
    /\ cpc = "input"
    /\ initial_cookies \in EnvDocuments
    /\ DeltaIdle
    /\ RowsIdle
    /\ DateIdle
    /\ ApiIdle
    /\ SearchIdle
    /\ RaceIdle
    /\ LoopIdle

LoadNext == Construct

LoadSpec == LoadInit /\ [][LoadNext]_vars

----------------------------------------------------------------------------
(* Claims about the bootstrap, checked under LoadSpec. *)

\* the cookie domain of the target application in a session-state document
BootstrapDomains == {EACCOUNTS_HOST}

\* the entries of the document that belong to the target application
Matching(cs) == {k \in DOMAIN cs : cs[k].domain \in BootstrapDomains}

----------------------------------------------------------------------------
(* Claims about the pagination of get_transactions, checked under Spec. *)

\* C22, as claimed: a further postback is issued only while the latest
\* result markup holds a link for the next page and the last fetched page
\* yielded at least one row; once the loop stops, the rows collected so far
\* are returned as success.
C22_AsClaimed ==
    /\ (pc = "post" /\ page_num >= 2) =>
          /\ delta_parts.grid
          /\ delta_parts.link
          /\ delta_parts.rows >= 1
    /\ stop # "none" =>
          /\ pc = "done"
          /\ result = "success"
          /\ transactions = all_transactions

\* C23, as claimed: for every hidden-field part (id, content) of the delta
\* of a postback, the next postback sends content as the value of the form
\* field named id, whatever the id.
C23_AsClaimed ==
    (pc = "post" /\ page_num >= 2) =>
        \A n \in DOMAIN delta_parts.hidden :
            page_form[n] = delta_parts.hidden[n]

----------------------------------------------------------------------------
(* A further claim about the delta codec, checked under DeltaSpec. *)

RECURSIVE CheckedFrom(_, _, _)
\* the parts of a decoding that returns a part only when its content has
\* the declared number of characters and a separator ends it
CheckedFrom(s, pos, acc) ==
    LET pipe1 == Find(s, "|", pos)
        length == PyInt(Slice(s, pos, pipe1))
        pipe2 == Find(s, "|", pipe1 + 1)
        pipe3 == Find(s, "|", pipe2 + 1)
        stop_ == pipe3 + 1 + length.value
    IN  IF \/ ~(pos < Len(s))
           \/ pipe1 = -1
           \/ ~length.ok
           \/ pipe2 = -1
           \/ pipe3 = -1
        THEN acc
        ELSE IF ~(stop_ < Len(s)) THEN acc
        ELSE IF s[stop_ + 1] # "|" THEN acc
        ELSE CheckedFrom(s, stop_ + 1,
                Append(acc, [type |-> Slice(s, pipe1 + 1, pipe2),
                             id |-> Slice(s, pipe2 + 1, pipe3),
                             content |-> Slice(s, pipe3 + 1, stop_)]))

\* C24, as claimed: every part _parse_delta_response returns has a content
\* of exactly the declared number of characters and was ended by a '|';
\* when the content is shorter than declared or the separator is missing,
\* decoding stops and that part is not returned.
C24_AsClaimed ==
    cpc = "returned" => parts = CheckedFrom(text, 0, <<>>)

\* ---------------------------------------------------------------------
\* get_transactions: the date fields of the search postback
\* (one specification per call: the arguments are drawn, the form is built)
\* ---------------------------------------------------------------------

\* the begin_date / end_date arguments: None, or a text of the query string
SearchDates ==
    {<<>>} \cup {DateText(mo, d, 2026, h, 0, ap) :
                    mo \in {2, 12}, d \in {1, 29, 31}, h \in {1, 11, 12},
                    ap \in {<<"A", "M">>, <<"P", "M">>}}

\* the date pickers of AccountTransaction.aspx as the server renders them:
\* the input's value and the hidden fields of the same picker
PagePicker(s) ==
    [display |-> s, telerik |-> to_telerik_date(s), cs |-> to_client_state(s)]

PageBegin == PagePicker(DateText(12, 1, 2024, 12, 0, <<"A", "M">>))

PageEnd == PagePicker(DateText(12, 31, 2024, 11, 59, <<"P", "M">>))

\* get_transactions 487-503: the three fields sent for one picker
ResolveDate(arg, page, use_custom) ==
    [display |-> IF arg # <<>> THEN arg ELSE page.display,
     telerik |-> IF use_custom THEN to_telerik_date(arg) ELSE page.telerik,
     cs |-> IF use_custom THEN to_client_state(arg) ELSE page.cs]

\* get_transactions 491: begin_date and end_date
UseCustom(b, e) == b # <<>> /\ e # <<>>

\* get_transactions 484-530; a ValueError of strptime leaves the try block
BuildSearchForm ==
    /\ cpc = "input"
    /\ LET use_custom == UseCustom(begin_date, end_date)
           raises == /\ use_custom
                     /\ \/ ~Strptime(begin_date).ok
                        \/ ~Strptime(end_date).ok
       IN  /\ cpc' = IF raises THEN "raised" ELSE "returned"
           /\ search_dates' =
                 IF raises THEN search_dates
                 ELSE [begin |-> ResolveDate(begin_date, PageBegin, use_custom),
                       end |-> ResolveDate(end_date, PageEnd, use_custom)]
    /\ UNCHANGED <<begin_date, end_date>>
    /\ UNCHANGED notSearch

SearchInit ==
    /\ Quiescent
    /\ cpc = "input"
    /\ begin_date \in SearchDates
    /\ end_date \in SearchDates
    /\ search_dates = [begin |-> NoDateFields, end |-> NoDateFields]
    /\ DeltaIdle
    /\ RowsIdle
    /\ DateIdle
    /\ ApiIdle
    /\ LoadIdle
    /\ RaceIdle
    /\ LoopIdle

SearchNext == BuildSearchForm

SearchSpec == SearchInit /\ [][SearchNext]_vars

\* the instant a picker's three fields denote, when they denote one
SameInstant(f) ==
    /\ Strptime(f.display).ok
    /\ f.telerik = Strftime(Strptime(f.display))
    /\ f.cs.valueAsString = f.telerik
    /\ f.cs.validationText = f.telerik

\* C25, as claimed: in every search postback the display text, the
\* date-time encoding and the client-state blob of the begin date denote
\* the same instant, and so do those of the end date, whichever of the
\* two arguments are supplied
C25_AsClaimed ==
    cpc = "returned" =>
        /\ SameInstant(search_dates.begin)
        /\ SameInstant(search_dates.end)

----------------------------------------------------------------------------
(* Two scrape operations at once: api.py builds a DiningBalanceScraper    *)
(* per request, and every one of them reads and writes the same           *)
(* cookies.pkl without a lock.                                            *)

MaxRequests == 2

Scrapers == {1, 2}

\* the value of a cookie the server sets in a response to scraper w
Fresh(w) == IF w = 1 THEN "c1" ELSE "c2"

\* the Set-Cookie headers of one response to scraper w
SetCookies(w) ==
    {EmptyDict} \cup {[n \in {c} |-> Fresh(w)] : c \in CookieNames}

NewScraper ==
    [pc |-> "new", cookie_dict |-> EmptyDict, requests |-> 0,
     received |-> EmptyDict]

\* a save that first reads the file and adds the operation's cookies to it
SavedMerged(file, d) == File(Update(file.d, d))

\* save_cookies 98-102: the file is opened for writing and holds the dict
Saved(file, d) == File(d)

\* __init__ 30-34: an empty dict, then load_cookies
RaceConstruct(w) ==
    /\ scrapers[w].pc = "new"
    /\ scrapers' =
          [scrapers EXCEPT
              ![w].pc = "request",
              ![w].cookie_dict =
                  load_cookies(cookies_file, initial_cookies).cookie_dict]
    /\ cookies_file' = load_cookies(cookies_file, initial_cookies).file
    /\ UNCHANGED save_log

\* _fetch_page 226-273 / _ajax_post 280-315: a request whose response is
\* taken (_update_cookies_from_response 212-221) or that raises
RaceRequest(w) ==
    /\ scrapers[w].pc = "request"
    /\ scrapers[w].requests < MaxRequests
    /\ \/ \E s \in SetCookies(w) :
             scrapers' =
                 [scrapers EXCEPT
                     ![w].pc = "save",
                     ![w].requests = @ + 1,
                     ![w].cookie_dict = Update(@, s),
                     ![w].received = Update(@, s)]
       \/ scrapers' = [scrapers EXCEPT ![w].pc = "done", ![w].requests = @ + 1]
    /\ UNCHANGED <<cookies_file, save_log>>

\* _fetch_page 274 / _ajax_post 316: save_cookies after the response
RaceSave(w) ==
    /\ scrapers[w].pc = "save"
    /\ cookies_file' = Saved(cookies_file, scrapers[w].cookie_dict)
    /\ save_log' =
          Append(save_log, [who |-> w, d |-> scrapers[w].cookie_dict])
    /\ scrapers' = [scrapers EXCEPT ![w].pc = "request"]

\* get_balance 421-462 / get_transactions 618-626: the operation returns
RaceReturn(w) ==
    /\ scrapers[w].pc = "request"
    /\ scrapers[w].requests >= 1
    /\ scrapers' = [scrapers EXCEPT ![w].pc = "done"]
    /\ UNCHANGED <<cookies_file, save_log>>

\* the cookies a login obtained
LoginCookies == [n \in CookieNames |-> "login"]

LoggedIn == \E i \in DOMAIN save_log : save_log[i].who = 0

\* api.login 67-93, once, while scrape operations are under way: it writes
\* cookies.pkl and sso_cookies.pkl and returns success (a login that ends
\* with an error before the writes changes nothing)
RaceLogin ==
    /\ ~LoggedIn
    /\ cookies_file' = Saved(cookies_file, LoginCookies)
    /\ sso_cookies_file' = Sso([t |-> LoginCookies, i |-> "idp"])
    /\ save_log' = Append(save_log, [who |-> 0, d |-> LoginCookies])
    /\ UNCHANGED scrapers

RaceInit ==
    /\ ScrapeInit
    /\ sso_cookies_file = NoSso
    /\ lpc = "idle"
    /\ LoginStart
    /\ cpc = "input"
    /\ scrapers = [w \in Scrapers |-> NewScraper]
    /\ save_log = <<>>
    /\ DeltaIdle
    /\ RowsIdle
    /\ DateIdle
    /\ ApiIdle
    /\ LoadIdle
    /\ SearchIdle
    /\ LoopIdle

RaceNext ==
    /\ \/ \E w \in Scrapers :
             /\ \/ RaceConstruct(w)
                \/ RaceRequest(w)
                \/ RaceSave(w)
                \/ RaceReturn(w)
             /\ UNCHANGED sso_cookies_file
       \/ RaceLogin
    /\ UNCHANGED <<pc, op, cookie_dict, refreshVars, reqlog,
                   get_resps, failure, result, transactions, formVars>>
    /\ UNCHANGED <<cpc, loginVars, deltaVars, rowVars, dateVars, apiVars,
                   loadVars, searchVars, loopVars>>

RaceSpec == RaceInit /\ [][RaceNext]_vars

----------------------------------------------------------------------------
(* Claims about concurrent operations, checked under RaceSpec. *)

\* the cookie n = v is in the persisted target cookie set
Persisted(n, v) ==
    /\ cookies_file.exists
    /\ n \in DOMAIN cookies_file.d
    /\ cookies_file.d[n] = v

\* scraper a received n = v and saved it, and scraper b saved last from a
\* dict that does not hold it
LostUpdate(a, b, n) ==
    /\ save_log # <<>>
    /\ a # b
    /\ n \in DOMAIN scrapers[a].received
    /\ scrapers[a].received[n] = Fresh(a)
    /\ \E i \in DOMAIN save_log :
          /\ save_log[i].who = a
          /\ n \in DOMAIN save_log[i].d
          /\ save_log[i].d[n] = Fresh(a)
    /\ save_log[Len(save_log)].who = b
    /\ ~(n \in DOMAIN save_log[Len(save_log)].d
         /\ save_log[Len(save_log)].d[n] = Fresh(a))

\* C21: with no serialization the persisted target cookie set is the dict
\* of whichever operation saved last, so a cookie value that one operation
\* received and saved is gone from it once the other operation, whose dict
\* does not hold that value, saves after it (lost update)
C21_LostUpdate ==
    /\ save_log # <<>> => cookies_file = File(save_log[Len(save_log)].d)
    /\ \A a \in Scrapers, b \in Scrapers, n \in CookieNames :
          LostUpdate(a, b, n) => ~Persisted(n, Fresh(a))

\* both operations have returned, the first received and saved a fresh
\* "sid", and the persisted set lacks it because the second saved last
C21_Witness ==
    /\ \A w \in Scrapers : scrapers[w].pc = "done"
    /\ LostUpdate(1, 2, "sid")
    /\ ~Persisted("sid", Fresh(1))

----------------------------------------------------------------------------
(* Claims about the phases of perform_login, checked under LoginSpec. *)

\* C30: the initial navigation issues at most 15 GET requests, whatever the
\* server answers, a server that redirects forever included
C30_AtMostFifteenGets == hops <= MaxRedirects

\* the navigation ended after 15 GETs, 14 of them followed redirects
C30_Witness ==
    /\ lpc = "done"
    /\ hops = MaxRedirects
    /\ landing.landed
    /\ lreq = <<>>

\* the navigation landed on the target application with account data and
\* without a form that hands over to the identity provider
AuthenticatedLanding ==
    /\ landing.landed
    /\ landing.eacc
    /\ landing.accounts
    /\ ~landing.saml_req

\* C27: when the initial navigation lands on the target application already
\* authenticated, perform_login returns the target cookies and is done,
\* without submitting credentials and without any second-factor request
C27_AlreadyAuthenticated ==
    AuthenticatedLanding =>
        /\ lpc = "done"
        /\ lresult = "returned"
        /\ lfailure = NoLFailure
        /\ lreq = <<>>
        /\ cred_resp = NoCred
        /\ duo = "none"

\* an authenticated landing that returned a target cookie
C27_Witness ==
    /\ AuthenticatedLanding
    /\ lresult = "returned"
    /\ "sid" \in DOMAIN session

\* the response to the credentials carries an assertion form and nothing
\* of a second-factor challenge
SamlWithoutChallenge ==
    /\ ~cred_resp.exc
    /\ cred_resp.saml_form
    /\ cred_resp.iframe = "none"
    /\ ~cred_resp.duo_url
    /\ ~cred_resp.meta

\* the attempt is in the hand-back of the assertion or has ended there,
\* and no request went to the second-factor provider
OnSamlHandBack ==
    /\ lpc \in {"lsaml_post", "lsaml_direct", "done"}
    /\ duo = "none"
    /\ \A i \in DOMAIN lreq : lreq[i] \notin DuoRequests
    /\ lpc \in {"lsaml_direct", "done"} => LCount("POST SAMLResponse") >= 1

\* C28, as claimed: when the response to the credentials carries an
\* assertion form and no second-factor challenge, perform_login follows
\* the hand-back of the assertion and ends there, with no push and no poll
C28_AsClaimed == SamlWithoutChallenge => OnSamlHandBack

\* C28: when the response to the credentials carries an assertion form, no
\* second-factor challenge and none of the credential error texts,
\* perform_login posts the assertion and ends in the hand-back (returning,
\* or failing on a transport error or a session that was not established),
\* with no push and no poll
C28_SamlWithoutChallenge ==
    (SamlWithoutChallenge /\ ~cred_resp.invalid /\ ~cred_resp.disabled) =>
        /\ OnSamlHandBack
        /\ lpc = "done" =>
              \/ lresult = "returned"
              \/ lfailure \in {[cls |-> "Exception", msg |-> "transport"],
                               [cls |-> "LoginError",
                                msg |-> "saml_not_established"]}

\* the assertion of such a response was posted and the attempt returned
C28_Witness ==
    /\ SamlWithoutChallenge
    /\ ~cred_resp.invalid
    /\ ~cred_resp.disabled
    /\ lpc = "done"
    /\ lresult = "returned"
    /\ LCount("POST SAMLResponse") >= 1

\* the chain after the second factor ended on a page that is neither the
\* target application nor a login page
EndedElsewhere ==
    /\ duo # "none"
    /\ chain_end.ended
    /\ ~chain_end.eacc
    /\ ~chain_end.login

SessionNotEstablished ==
    {[cls |-> "LoginError", msg |-> "not_established"],
     [cls |-> "LoginError", msg |-> "saml_not_established"]}

\* C29, as claimed: when the chain that follows the hand-back of the second
\* factor ends on a page that is neither the target application nor a login
\* page, the attempt ends with the session-not-established failure (or on a
\* transport failure) and returns no cookies
C29_AsClaimed ==
    (EndedElsewhere /\ lpc = "done") =>
        /\ lresult = "raised"
        /\ lfailure \in SessionNotEstablished
                            \cup {[cls |-> "Exception", msg |-> "transport"]}

\* the requests that only the frame (iframe) sub-protocol issues, and the
\* ones that only the universal prompt sub-protocol issues
IframeOnly == {"POST duo auth", "POST sig_response"}

UniversalOnly == {"GET duo prompt", "POST preauth", "GET prompt data",
                  "GET parent", "GET result_url", "GET duo url"}

Issued == {lreq[i] : i \in DOMAIN lreq}

\* the variant the content of the post-credentials page shows
ShownVariant ==
    IF cred_resp.iframe = "ok" THEN "iframe"
    ELSE IF cred_resp.iframe = "none" /\ (cred_resp.duo_url \/ cred_resp.meta)
    THEN "universal"
    ELSE "none"

\* the requests of one variant only, and the variant the page showed
OneVariant ==
    /\ duo # "none" => duo = ShownVariant
    /\ duo = "none" => Issued \cap (DuoRequests \cup IframeOnly
                                      \cup UniversalOnly) = {}
    /\ duo = "iframe" => Issued \cap UniversalOnly = {}
    /\ duo = "universal" => Issued \cap IframeOnly = {}
    /\ lpc \in {"duo_init"} => duo = "iframe"
    /\ lpc \in {"duo_meta", "uni_start", "uni_data"} => duo = "universal"
    /\ lpc \in {"duo_trigger", "poll", "duo_result", "post_duo"} =>
          duo \in {"iframe", "universal"}

\* the variant is set by the step that reads the post-credentials page
ChosenOnce == duo' # duo => (lpc = "creds" /\ duo = "none")

\* C26: in every authentication attempt at most one challenge variant is
\* active: it is chosen once, from the content of the post-credentials
\* page, only requests of that variant's sub-protocol are issued, and the
\* proof goes back by that variant's method (the signed-response POST for
\* iframe, the redirect chain for universal)
C26_OneVariant == []OneVariant /\ [][ChosenOnce]_vars

\* a universal attempt that polled, handed the proof back by a GET and
\* returned; an iframe attempt does the same with the signed-response POST
C26_Witness ==
    /\ lpc = "done"
    /\ lresult = "returned"
    /\ duo = "universal"
    /\ LCount("POST status") >= 1
    /\ Issued \cap {"GET parent", "GET result_url", "GET duo url"} # {}

----------------------------------------------------------------------------
(* perform_login from the response to the credentials on: the second      *)
(* factor and the hand-back, with every step that can be taken taken      *)
(* eventually (each single request returns).                              *)

\* the responses to the credentials that perform_login goes on from
GoingOn == {r \in CredResps : CredNext(CredOutcome(r)) # "done"}

\* perform_login after line 189 (or 183): the navigation ended on the login
\* page, the credentials were posted once
ChallengeInit ==
    /\ ScrapeInit
    /\ cookies_file = NoFile
    /\ sso_cookies_file = NoSso
    /\ CallIdle
    /\ \E r \in GoingOn, dp \in [form : BOOLEAN, sid : BOOLEAN] :
         LET o == CredOutcome(r)
         IN  /\ lpc = CredNext(o)
             /\ cred_resp = r
             /\ duo_page = IF o = "universal" THEN dp ELSE NoDuoPage
             /\ duo = IF o \in {"iframe", "universal"} THEN o
                      ELSE IF o = "meta_refresh" THEN "universal"
                      ELSE "none"
    /\ url = [cas |-> FALSE, eacc |-> FALSE]
    /\ hops = 0
    /\ proof = "none"
    /\ elapsed = 0
    /\ last_issue = 0
    /\ min_wait = -1
    /\ status_log = <<>>
    /\ only_pending = TRUE
    /\ last_status = NoStatus
    /\ lreq = <<"POST credentials">>
    /\ lfailure = NoLFailure
    /\ lresult = "none"
    /\ session = EmptyDict
    /\ depth = 0
    /\ landing = Landed([cas |-> TRUE, eacc |-> FALSE], NoNav)
    /\ chain_end = NoChainEnd

ChallengeNext ==
    \/ DuoMetaGet
    \/ DuoInit
    \/ UniSkipPreauth
    \/ UniPreauth
    \/ UniPromptData
    \/ IframeTrigger
    \/ UniTrigger
    \/ IframePoll
    \/ UniversalPoll
    \/ IframeResult
    \/ UniResult
    \/ PostDuo
    \/ FollowGet
    \/ FollowDirectGet
    \/ CompleteSamlPost
    \/ CompleteSamlDirectGet

ChallengeSpec ==
    ChallengeInit /\ [][ChallengeNext]_vars /\ WF_vars(ChallengeNext)

----------------------------------------------------------------------------
(* Claims about termination, checked under ChallengeSpec. *)

InHandBack ==
    lpc \in {"post_duo", "follow_get", "follow_direct", "lsaml_post",
             "lsaml_direct"}

\* C31, as claimed: the hand-back ends for every identity provider, one
\* that answers every assertion with another assertion form or every page
\* with another redirect included: the attempt ends with cookies or a failure
C31_AsClaimed == InHandBack ~> (lpc = "done")

\* how the claim has the polling loop end: with the proof, refused, or out
\* of time; a request that does not return is not the loop's doing
PollEndedAsClaimed ==
    \/ proof # "none"
    \/ /\ lpc = "done"
       /\ lfailure \in {[cls |-> "LoginError", msg |-> "duo_denied"],
                        [cls |-> "LoginError", msg |-> "duo_timeout"],
                        [cls |-> "LoginError", msg |-> "poll_budget"],
                        [cls |-> "Exception", msg |-> "transport"]}

\* C32, as claimed: for every sequence of status responses, an endless
\* sequence of pending or unparseable ones included, the polling loop of
\* either variant ends, with the proof obtained, denied or timed out
C32_AsClaimed == (lpc = "poll") ~> PollEndedAsClaimed

----------------------------------------------------------------------------
(* Claims about the second factor, checked under LoginSpec. *)

\* the init response of the frame session carried the token of a remembered
\* device and no session id: the token is what _do_duo_iframe returned
Bypassed == proof = "bypass"

\* C33: in the iframe variant, when the init response carries a
\* remembered-device bypass token instead of a session id, the token is
\* returned as the proof and neither a push trigger nor a status poll is
\* issued in that attempt
C33_BypassSkipsPush ==
    Bypassed =>
        /\ duo = "iframe"
        /\ lpc \notin {"duo_init", "duo_trigger", "poll", "duo_result"}
        /\ Issued \cap {"POST trigger", "POST status", "POST result"} = {}
        /\ LCount("POST duo auth") = 1
        /\ lpc # "post_duo" => LCount("POST sig_response") = 1

\* the token went back with the signed-response POST and the attempt returned
C33_Witness ==
    /\ Bypassed
    /\ lpc = "done"
    /\ lresult = "returned"
    /\ LCount("POST sig_response") = 1

\* C34, as claimed: in the universal variant the push trigger is never sent
\* before the preauth form was submitted: every trigger request has a
\* preauth POST earlier in the same attempt
C34_AsClaimed ==
    duo = "universal" =>
        \A i \in DOMAIN lreq :
            lreq[i] = "POST trigger" =>
                \E j \in 1 .. (i - 1) : lreq[j] = "POST preauth"

----------------------------------------------------------------------------
(* The trigger / poll / fetch-result loop of the two variants, run side   *)
(* by side on the same responses: _do_duo_iframe 379-467 and              *)
(* _poll_duo_push 635-728.                                                *)

Variants == {"iframe", "universal"}

\* the answers to the requests of the loop, apart from a transport failure
TriggerResps == {"nonjson", "not_ok", "no_txid", "txid"}

LoopStatusResps == {r \in StatusResps : r.status # "exc"}

\* the answer to the result request: not JSON, a cookie, a parent URL and no
\* cookie, or neither
ResultResps == {"nonjson", "cookie", "parent", "dict"}

Proof == [cls |-> "none", msg |-> "proof"]

\* _do_duo_iframe 453-458, _poll_duo_push 702-719: how the loop ends on the
\* answer to the result request
ResultOutcome(variant, r) ==
    IF variant = "iframe"
    THEN (IF r = "nonjson" THEN [cls |-> "Exception", msg |-> "parse"]
          ELSE IF r = "cookie" THEN Proof
          ELSE [cls |-> "LoginError", msg |-> "no_auth_cookie"])
    ELSE Proof

LoopStart == [at |-> "trigger", polls |-> 0, elapsed |-> 0, end |-> NoLFailure]

Ended(l, how) == [l EXCEPT !.at = "ended", !.end = how]

\* the answer r to the push trigger, read by the loop l of variant v
OnTrigger(v, l, r) ==
    IF TriggerOutcome(v, r) = NoLFailure THEN [l EXCEPT !.at = "poll"]
    ELSE Ended(l, TriggerOutcome(v, r))

\* one round of the loop l of variant v: the answer r came after lat seconds
OnStatus(v, l, r, lat) ==
    LET o == PollOutcome(v, r)
        polled == [l EXCEPT !.polls = @ + 1]
        clock == PollIssueTime(l.elapsed) + lat
    IN  IF o = "continue"
        THEN (IF clock < DUO_POLL_TIMEOUT
              THEN [polled EXCEPT !.elapsed = clock]
              ELSE Ended([polled EXCEPT !.elapsed = clock],
                         [cls |-> "LoginError", msg |-> "poll_budget"]))
        ELSE IF o = "result" THEN [polled EXCEPT !.at = "result"]
        ELSE Ended(polled, PollFailure(o))

\* both loops send the trigger and get the same answer
LoopTrigger ==
    /\ \A v \in Variants : loops[v].at = "trigger"
    /\ \E r \in TriggerResps :
         loops' = [v \in Variants |-> OnTrigger(v, loops[v], r)]
    /\ UNCHANGED <<cpc, scrapeVars, loginVars, deltaVars, rowVars, dateVars,
                   apiVars, loadVars, searchVars, raceVars>>

\* the loops that are polling get the next answer of the sequence
LoopPoll ==
    /\ \E v \in Variants : loops[v].at = "poll"
    /\ \E r \in LoopStatusResps, lat \in Latencies :
         loops' = [v \in Variants |->
                      IF loops[v].at = "poll"
                      THEN OnStatus(v, loops[v], r, lat) ELSE loops[v]]
    /\ UNCHANGED <<cpc, scrapeVars, loginVars, deltaVars, rowVars, dateVars,
                   apiVars, loadVars, searchVars, raceVars>>

\* the loops that were approved fetch the result and get the same answer
LoopResult ==
    /\ \E v \in Variants : loops[v].at = "result"
    /\ \E r \in ResultResps :
         loops' = [v \in Variants |->
                      IF loops[v].at = "result"
                      THEN Ended(loops[v], ResultOutcome(v, r)) ELSE loops[v]]
    /\ UNCHANGED <<cpc, scrapeVars, loginVars, deltaVars, rowVars, dateVars,
                   apiVars, loadVars, searchVars, raceVars>>

LoopInit ==
    /\ Quiescent
    /\ cpc = "input"
    /\ loops = [v \in Variants |-> LoopStart]
    /\ DeltaIdle
    /\ RowsIdle
    /\ DateIdle
    /\ ApiIdle
    /\ LoadIdle
    /\ SearchIdle
    /\ RaceIdle

LoopNext == LoopTrigger \/ LoopPoll \/ LoopResult

LoopSpec == LoopInit /\ [][LoopNext]_vars

\* C35, as claimed: on the same sequence of trigger, status and result
\* responses the loops of the two variants issue the same number of polls
\* and end in the same outcome, the proof or the same failure
C35_AsClaimed ==
    (\A v \in Variants : loops[v].at = "ended") =>
        /\ loops["iframe"].polls = loops["universal"].polls
        /\ loops["iframe"].end = loops["universal"].end

----------------------------------------------------------------------------
(* One attempt, no retry. *)

SubmittedOnce == LCount("POST credentials") <= 1 /\ LCount("POST trigger") <= 1

\* C36: within one attempt the credentials are submitted at most once and
\* at most one push is triggered, whatever the outcome, and once the attempt
\* has failed no further request is issued
C36_NoRetry ==
    /\ []SubmittedOnce
    /\ [][lresult = "raised" => lreq' = lreq]_vars

\* an attempt that failed after its push had been triggered and polled
C36_Witness ==
    /\ lresult = "raised"
    /\ LCount("POST credentials") = 1
    /\ LCount("POST trigger") = 1
    /\ LCount("POST status") >= 1

\* C37, as claimed: whenever perform_login returns without a failure, the
\* cookie mapping it returns holds at least one cookie of the target
\* application's domain
C37_AsClaimed == lresult = "returned" => session # EmptyDict

----------------------------------------------------------------------------
(* The refresh and the cookie sets. *)

InRefresh == pc \in {"refresh", "saml_post", "saml_get"}

\* C38, as claimed: whenever the refresh ends with SessionExpired, for
\* whatever reason, the in-memory target cookie set and both persisted
\* cookie sets are what they were when the refresh started: no step of a
\* refresh changes any of them unless it ends the refresh with success
C38_AsClaimed ==
    [][(InRefresh /\ refresh_state' # "ok") => UNCHANGED cookieVars]_vars

----------------------------------------------------------------------------
(* A login while scrape operations are under way. *)

\* no operation is under way: each has returned or has not been started
NoneInFlight == \A w \in Scrapers : scrapers[w].pc \in {"new", "done"}

\* the persisted value of n is the one the file held before the login
OlderThanLogin(n) == Persisted(n, "old")

\* C39, as claimed: once the login has returned success and the operations
\* that were in flight have finished, the persisted target cookie set holds
\* no value that was loaded before the login
C39_AsClaimed ==
    (LoggedIn /\ NoneInFlight) =>
        \A n \in CookieNames : ~OlderThanLogin(n)

----------------------------------------------------------------------------
(* Expiry during a postback. *)

\* the session was found expired by a postback: the page GET, and with it
\* any refresh, lies before the first postback
ExpiredInPostback ==
    failure.cls = "SessionExpiredError" /\ Count("POST postback") >= 1

\* the refresh is called right after the first page GET and nowhere else
RefreshOnlyFromFirstGet ==
    \A i \in DOMAIN reqlog :
       reqlog[i] = "CALL refresh" => (i = 2 /\ reqlog[1] = "GET page")

\* C40: an expiry detected during a postback (a redirect response or a
\* pageRedirect part) is not recovered: the postback that met it is the last
\* request of the operation, no refresh follows it, no postback is issued
\* again, and get_transactions returns the session_expired error; the
\* refresh is only ever entered from the initial page GET
C40_PostbackExpiryFinal ==
    /\ [](ExpiredInPostback =>
            /\ pc = "done"
            /\ op = "transactions"
            /\ result = "session_expired"
            /\ transactions = Absent
            /\ reqlog[Len(reqlog)] = "POST postback")
    /\ []RefreshOnlyFromFirstGet
    /\ [][ExpiredInPostback => reqlog' = reqlog]_vars

\* the first page of transactions came, the postback for the second met
\* the expired session, after a refresh had succeeded on the page GET
C40_Witness ==
    /\ ExpiredInPostback
    /\ Count("POST postback") = 2
    /\ Count("CALL refresh") = 1
    /\ failure.origin = "expiry"
    /\ result = "session_expired"

====
